---------------------------- MODULE Spec2Model ----------------------------
(***************************************************************************)
(* Model of the group-travel option evaluation engine:                     *)
(*   app/backend/services/optimiser.py  (scoring, simulate_option,         *)
(*                                       simulate_event)                   *)
(*   app/backend/api/events.py          (simulate endpoint, ranking)       *)
(*   app/backend/services/pricing.py    (Mock and Duffel providers, caches)*)
(*   app/backend/services/hotel.py      (room nights, selection, cost)     *)
(*   app/backend/services/transfer.py   (arrival waves, transfer plan)     *)
(*   app/backend/services/whatif.py     (what-if proposals, evaluation)    *)
(*                                                                         *)
(* Numbers.  Python floats are modelled as exact fixed-point integers:     *)
(* a quantity x (dollars, minutes, a rate in 0..1) is the integer x * FP.  *)
(* Dates are day numbers, times of day are (hour, minute) records.         *)
(***************************************************************************)
EXTENDS Integers, Sequences, FiniteSets, TLC

VARIABLES
    \* --- the simulate endpoint and OptimiserService.simulate_event ---
    event,            \* candidate_locations, candidate_date_windows, duration_days
    attendees,        \* Attendee rows the event's EventAttendee rows point to
    attendee_count,   \* number of EventAttendee rows of the event
    hotels,           \* rows of the hotels table
    transfer_options, \* rows of the transfer_options table
    pc,               \* where the request is
    date_windows,     \* the parsed DateWindow list
    loc_i, win_j,     \* position of the two nested loops (1-based)
    results,          \* the list the loops append to
    sim_error,        \* the exception that left simulate_option, or None
    response,         \* what the caller of the endpoint gets
    \* --- a call of a HotelOptimisationService method ---
    hotel_call,       \* the method and its arguments
    hotel_ret,        \* its return value, None before it returns
    \* --- a call of one of the two scoring functions ---
    score_call,       \* the function and its arguments
    score_ret,        \* its return value, None before it returns
    \* --- MockPricingProvider and the price_cache table ---
    in_memory_cache,  \* provider._in_memory_cache, in insertion order
    price_cache,      \* rows of the SQLite table price_cache
    first_served,     \* per request, the itinerary its first call returned
    last_call,        \* the latest get_best_itinerary call and its result
    pricing_calls,    \* number of get_best_itinerary calls so far
    \* --- a call of compute_arrival_waves, then of optimize_transfers ---
    transfer_call,    \* the arrival times, attendee ids, airport and hotel
    transfer_ret,     \* None, then the waves, then the waves and the plan
    \* --- generate_variations, then evaluate_proposals, on the stored event ---
    whatif_call,      \* the baseline_result argument
    whatif_ret,       \* None, then the proposals, then the evaluation's outcome
    \* --- one DuffelProvider and the get_best_itinerary calls on it ---
    duffel_cache,     \* provider._in_memory_cache, in insertion order
    duffel_calls,     \* per call: its request, where it is, what it returned
    duffel_log        \* the warnings the provider's logger was given

simVars == <<event, attendees, attendee_count, hotels, transfer_options, pc,
             date_windows, loc_i, win_j, results, sim_error, response>>

hotelVars == <<hotel_call, hotel_ret>>

scoreVars == <<score_call, score_ret>>

pricingVars == <<in_memory_cache, price_cache, first_served, last_call,
                 pricing_calls>>

transferVars == <<transfer_call, transfer_ret>>

whatifVars == <<whatif_call, whatif_ret>>

duffelVars == <<duffel_cache, duffel_calls, duffel_log>>

vars == <<simVars, hotelVars, scoreVars, pricingVars, transferVars, whatifVars,
          duffelVars>>

\* what each component's actions leave alone
notSimVars == <<hotelVars, scoreVars, pricingVars, transferVars, whatifVars,
                duffelVars>>
notHotelVars == <<simVars, scoreVars, pricingVars, transferVars, whatifVars,
                  duffelVars>>
notScoreVars == <<simVars, hotelVars, pricingVars, transferVars, whatifVars,
                  duffelVars>>
notPricingVars == <<simVars, hotelVars, scoreVars, transferVars, whatifVars,
                    duffelVars>>
notTransferVars == <<event, attendees, attendee_count, hotels, pc, date_windows, loc_i,
                     win_j, results, sim_error, response, hotelVars, scoreVars,
                     pricingVars, whatifVars, duffelVars>>
notWhatifVars == <<simVars, hotelVars, scoreVars, pricingVars, transferVars,
                   duffelVars>>
\* a DuffelProvider call writes the price_cache table as well
notDuffelVars == <<simVars, hotelVars, scoreVars, transferVars, whatifVars,
                   in_memory_cache, first_served, last_call, pricing_calls>>

-----------------------------------------------------------------------------
(* Bounds of the model *)

MaxAttendees == 2
MaxLocations == 2
MaxWindows == 2
\* duration_days of the simulated event
EventDuration == 3
\* compute_room_nights: number of attendees and duration_days
MaxGuests == 3
MaxDuration == 3
\* the entry count above which the in-memory price cache drops its oldest
\* entry: the 1000 of pricing.py, scaled down
MaxCacheEntries == 1
\* get_best_itinerary calls in one behaviour
MaxPricingCalls == 4
\* rows of the hotels table in a select_optimal_hotel call
MaxHotels == 2
\* arrivals in a compute_arrival_waves call
MaxArrivals == 5

-----------------------------------------------------------------------------
(* Fixed-point arithmetic *)

\* one unit is 1/6000: divisible by 100 (cents), by 10 (the 0.8 and 0.5
\* weights) and by every attendee count up to 6 (averages)
FP == 60 * 100

\* Python's None, where a record is expected, and where a travel class is
None == [none |-> TRUE]
NoClass == "None"

\* datetime.time and datetime.datetime values
Time(hour, minute) == [hour |-> hour, minute |-> minute]
DateTime(d, t) == [date |-> d, hour |-> t.hour, minute |-> t.minute]
\* position of a datetime on the time line, in minutes
Timestamp(dt) == (dt.date * 24 + dt.hour) * 60 + dt.minute

Max(a, b) == IF a >= b THEN a ELSE b
Min(a, b) == IF a <= b THEN a ELSE b

RECURSIVE SeqMax(_)
SeqMax(s) == IF Len(s) = 1 THEN s[1] ELSE Max(s[1], SeqMax(Tail(s)))

RECURSIVE SeqMin(_)
SeqMin(s) == IF Len(s) = 1 THEN s[1] ELSE Min(s[1], SeqMin(Tail(s)))

RECURSIVE SeqSum(_)
SeqSum(s) == IF s = <<>> THEN 0 ELSE s[1] + SeqSum(Tail(s))

\* Python round(x, nd) of a non-negative fixed-point x: to the nearest
\* multiple of unit, halves to the even multiple
RoundTo(x, unit) ==
    LET q == x \div unit
        r == x % unit
    IN  IF 2 * r < unit THEN q * unit
        ELSE IF 2 * r > unit THEN (q + 1) * unit
        ELSE IF q % 2 = 0 THEN q * unit ELSE (q + 1) * unit

Round2(x) == RoundTo(x, FP \div 100)

\* round(num / den, 4), in ten-thousandths
RoundRate4(num, den) ==
    LET x == num * 10000
        q == x \div den
        r == x % den
    IN  IF 2 * r < den THEN q
        ELSE IF 2 * r > den THEN q + 1
        ELSE IF q % 2 = 0 THEN q ELSE q + 1


-----------------------------------------------------------------------------
(* Pricing: requests, cache key, seed, MockPricingProvider._generate_itinerary *)

Origins == {"JFK", "LAX"}
Destinations == {"LIS", "MUC"}
TravelClasses == {"economy", "premium_economy", "business", "first"}
AIRLINES == <<"AA", "UA", "DL", "BA", "LH", "AF", "KL", "LX", "VS", "EK", "QF", "SQ">>

AirportCode(a) ==
    CASE a = "JFK" -> 1 [] a = "LAX" -> 2 [] a = "LIS" -> 3 [] a = "MUC" -> 4
      [] OTHER -> 5

ClassCode(c) ==
    CASE c = "economy" -> 0 [] c = "premium_economy" -> 1 [] c = "business" -> 2
      [] c = "first" -> 3 [] OTHER -> 4

\* a constraints dict: its travel_class and the insertion order of its keys
\* ("std" is the order simulate_option builds it in)
Constraints(travel_class, order) == [travel_class |-> travel_class, order |-> order]

Request(origin, destination, depart_date, return_date, constraints) ==
    [origin |-> origin, destination |-> destination, depart_date |-> depart_date,
     return_date |-> return_date, constraints |-> constraints]

\* f"{origin}:{destination}:{depart_date}:{return_date}:{sorted(constraints.items())}":
\* sorting the items drops the insertion order
_get_cache_key(req) ==
    <<req.origin, req.destination, req.depart_date, req.return_date,
      req.constraints.travel_class>>

\* f"{origin}{destination}{depart_date}{return_date}{str(constraints)}":
\* str(dict) keeps the insertion order
SeedString(req) ==
    <<req.origin, req.destination, req.depart_date, req.return_date,
      req.constraints.travel_class, req.constraints.order>>

\* int(md5(seed)): some fixed function of the seed string
_get_seeded_random(seed) ==
    AirportCode(seed[1]) * 7 + AirportCode(seed[2]) * 13 + seed[3] * 5 + seed[4] * 3
    + ClassCode(seed[5]) * 11 + (IF seed[6] = "std" THEN 0 ELSE 17)

\* the k-th draw of the seeded generator, in 0 .. m-1
Draw(rng, k, m) == (rng * (2 * k + 1) + k * k) % m

class_multipliers10(travel_class) ==
    CASE travel_class = "economy" -> 10
      [] travel_class = "premium_economy" -> 15
      [] travel_class = "business" -> 30
      [] travel_class = "first" -> 50
      [] OTHER -> 10

\* _generate_itinerary: price, stops, travel minutes, times and airline are
\* successive draws of the generator seeded from the seed string
_generate_itinerary(req, volatile) ==
    LET rng == _get_seeded_random(SeedString(req))
        \* 200.0 + random() * 1800.0, times the class multiplier
        base_price == ((200 + Draw(rng, 1, 4) * 600) * FP
                        * class_multipliers10(req.constraints.travel_class)) \div 10
        \* volatile: one more draw, base_price *= 0.95 + random() * 0.1
        v == IF volatile THEN 1 ELSE 0
        price == IF volatile
                 THEN (base_price \div 100) * (95 + Draw(rng, 2, 3) * 5)
                 ELSE base_price
        stops == Draw(rng, 2 + v, 3)
        travel_minutes == 200 + Draw(rng, 3 + v, 5) * 250
        depart_hour == 6 + Draw(rng, 4 + v, 17)
        depart_minute == 15 * Draw(rng, 5 + v, 4)
        depart_time == Time(depart_hour, depart_minute)
        \* (datetime.combine(depart_date, depart_time) + travel_minutes).time()
        arrive_total == depart_hour * 60 + depart_minute + travel_minutes
        arrive_time == Time((arrive_total \div 60) % 24, arrive_total % 60)
        airline == AIRLINES[1 + Draw(rng, 6 + v, 12)]
    IN  [origin |-> req.origin, destination |-> req.destination,
         depart_date |-> req.depart_date, return_date |-> req.return_date,
         airline |-> airline, stops |-> stops,
         depart_time |-> depart_time, arrive_time |-> arrive_time,
         travel_minutes |-> travel_minutes, price |-> Round2(price),
         segments |-> 2 * (stops + 1)]


\* pricing.py 242-263: the itinerary rebuilt from a price_cache row; the
\* row has no times and no segments
CachedItinerary(req, cached) ==
    [origin |-> req.origin, destination |-> req.destination,
     depart_date |-> req.depart_date, return_date |-> req.return_date,
     airline |-> cached.airline, stops |-> cached.stops,
     depart_time |-> Time(8, 0), arrive_time |-> Time(14, 0),
     travel_minutes |-> cached.travel_minutes, price |-> cached.price,
     segments |-> 0]

\* PriceCache(cache_key=..., price=..., airline=..., stops=..., travel_minutes=...)
PriceCacheRow(cache_key, itinerary) ==
    [cache_key |-> cache_key, price |-> itinerary.price, airline |-> itinerary.airline,
     stops |-> itinerary.stops, travel_minutes |-> itinerary.travel_minutes]

\* db.merge(cache_entry): insert, or replace the row of the same primary key
Merge(table, row) == { r \in table : r.cache_key # row.cache_key } \union {row}

InMemory(cache, cache_key) == \E i \in DOMAIN cache : cache[i].cache_key = cache_key

MemoryEntry(cache, cache_key) ==
    cache[CHOOSE i \in DOMAIN cache : cache[i].cache_key = cache_key].itinerary

\* pricing.py 271-276: over the limit the oldest entry goes, then the new
\* entry is stored
StoreInMemory(cache, cache_key, itinerary, limit) ==
    Append(IF Len(cache) > limit THEN Tail(cache) ELSE cache,
           [cache_key |-> cache_key, itinerary |-> itinerary])

\* get_best_itinerary (pricing.py 226-295): the path taken, the itinerary
\* returned and the two caches afterwards; db_ok = the SQLite write succeeds
get_best_itinerary(req, cache, table, volatile, limit, db_ok) ==
    LET cache_key == _get_cache_key(req)
        rows == { r \in table : r.cache_key = cache_key }
        rebuilt == CachedItinerary(req, CHOOSE r \in rows : TRUE)
        generated == _generate_itinerary(req, volatile)
    IN  IF InMemory(cache, cache_key)
        THEN [path |-> "memory", itinerary |-> MemoryEntry(cache, cache_key),
              cache |-> cache, table |-> table]
        ELSE IF rows # {}
        THEN [path |-> "sqlite", itinerary |-> rebuilt,
              cache |-> Append(cache, [cache_key |-> cache_key, itinerary |-> rebuilt]),
              table |-> table]
        ELSE [path |-> "generated", itinerary |-> generated,
              cache |-> StoreInMemory(cache, cache_key, generated, limit),
              table |-> IF db_ok THEN Merge(table, PriceCacheRow(cache_key, generated))
                        ELSE table]

-----------------------------------------------------------------------------
(* HotelOptimisationService (hotel.py) *)

EmptyRoomNightAnalysis ==
    [required_rooms_per_night |-> <<>>, peak_occupancy |-> 0, shoulder_nights |-> 0,
     total_room_nights |-> 0, nights_with_peak |-> 0]

DatesOf(times) == [i \in 1..Len(times) |-> times[i].date]

\* as CountRooms, but the night of the check-out date is counted too
RECURSIVE CountRoomsThroughCheckout(_, _, _, _, _, _)
CountRoomsThroughCheckout(rooms_per_night, arrival_dates, departure_dates, k, event_start, event_end) ==
    IF k > Min(Len(arrival_dates), Len(departure_dates)) THEN rooms_per_night
    ELSE LET check_in == Max(arrival_dates[k], event_start)
             check_out == Min(departure_dates[k], event_end)
             counted == [d \in DOMAIN rooms_per_night |->
                            IF check_in <= d /\ d <= check_out
                            THEN rooms_per_night[d] + 1
                            ELSE rooms_per_night[d]]
         IN  CountRoomsThroughCheckout(counted, arrival_dates, departure_dates,
                                       k + 1, event_start, event_end)

\* hotel.py 54-65: "for arrival_date, departure_date in zip(...)" from pair k
\* on; rooms_per_night counts, per date, the stays clamped to the event
RECURSIVE CountRooms(_, _, _, _, _, _)
CountRooms(rooms_per_night, arrival_dates, departure_dates, k, event_start, event_end) ==
    IF k > Min(Len(arrival_dates), Len(departure_dates)) THEN rooms_per_night
    ELSE LET check_in == Max(arrival_dates[k], event_start)
             check_out == Min(departure_dates[k], event_end)
             counted == [d \in DOMAIN rooms_per_night |->
                            IF check_in <= d /\ d < check_out
                            THEN rooms_per_night[d] + 1
                            ELSE rooms_per_night[d]]
         IN  CountRooms(counted, arrival_dates, departure_dates, k + 1,
                        event_start, event_end)

\* hotel.py 80-82 and 85-87
RECURSIVE NightsBefore(_, _)
NightsBefore(arrival_dates, event_start) ==
    IF arrival_dates = <<>> THEN 0
    ELSE (IF arrival_dates[1] < event_start THEN event_start - arrival_dates[1] ELSE 0)
         + NightsBefore(Tail(arrival_dates), event_start)

\* as NightsAfter, but a late departure counts as one night whatever its length
RECURSIVE NightsAfterOneEach(_, _)
NightsAfterOneEach(departure_dates, event_end) ==
    IF departure_dates = <<>> THEN 0
    ELSE (IF departure_dates[1] > event_end THEN 1 ELSE 0)
         + NightsAfterOneEach(Tail(departure_dates), event_end)

RECURSIVE NightsAfter(_, _)
NightsAfter(departure_dates, event_end) ==
    IF departure_dates = <<>> THEN 0
    ELSE (IF departure_dates[1] > event_end THEN departure_dates[1] - event_end ELSE 0)
         + NightsAfter(Tail(departure_dates), event_end)

RECURSIVE CountEqual(_, _)
CountEqual(s, x) ==
    IF s = <<>> THEN 0
    ELSE (IF s[1] = x THEN 1 ELSE 0) + CountEqual(Tail(s), x)

\* hotel.py 68-72: "while current_date < event_end", one entry per date
RequiredRoomsOneMore(rooms_per_night, event_start, event_end) ==
    [n \in 1 .. Max(event_end - event_start, 0) + 1 |->
        IF event_start + n - 1 \in DOMAIN rooms_per_night
        THEN rooms_per_night[event_start + n - 1] ELSE 0]

RequiredRooms(rooms_per_night, event_start, event_end) ==
    [n \in 1 .. Max(event_end - event_start, 0) |->
        rooms_per_night[event_start + n - 1]]

compute_room_nights(arrival_times, departure_times, duration_days) ==
    IF arrival_times = <<>> \/ departure_times = <<>>
    THEN EmptyRoomNightAnalysis
    ELSE
    LET arrival_dates == DatesOf(arrival_times)
        departure_dates == DatesOf(departure_times)
        earliest_arrival == SeqMin(arrival_dates)
        event_start == earliest_arrival
        event_end == event_start + duration_days
        rooms_per_night ==
            CountRooms([d \in event_start .. event_end - 1 |-> 0],
                       arrival_dates, departure_dates, 1, event_start, event_end)
        required_rooms == RequiredRooms(rooms_per_night, event_start, event_end)
        peak_occupancy == IF required_rooms # <<>> THEN SeqMax(required_rooms) ELSE 0
        shoulder_nights == NightsBefore(arrival_dates, event_start)
                           + NightsAfter(departure_dates, event_end)
    IN  [required_rooms_per_night |-> required_rooms,
         peak_occupancy |-> peak_occupancy,
         shoulder_nights |-> shoulder_nights,
         total_room_nights |-> SeqSum(required_rooms) + shoulder_nights,
         nights_with_peak |-> CountEqual(required_rooms, peak_occupancy)]

\* a Hotel row; corporate_rate is NoRate (None) or dollars * FP
NoRate == 0 - 1

\* "not hotel.corporate_rate": None or 0.0
RateMissing(hotel) == hotel.corporate_rate = NoRate \/ hotel.corporate_rate = 0

DefaultRate == 150

calculate_hotel_cost(hotel, room_nights, extra_nights) ==
    IF RateMissing(hotel)
    THEN room_nights * (DefaultRate * FP)
    ELSE LET base_cost == room_nights * hotel.corporate_rate
             extra_cost == extra_nights * hotel.corporate_rate
         IN  base_cost + extra_cost

\* a missing Hotel.capacity or Hotel.distance_to_venue_km (None)
NoValue == 0 - 1

\* "if hotel.capacity", "if hotel.distance_to_venue_km": neither None nor 0
Truthy(x) == x # NoValue /\ x # 0

Abs(x) == IF x < 0 THEN 0 - x ELSE x

\* hotel.py 144-159: the weighted score of a candidate, lower is better
HotelScore(hotel, room_nights) ==
    (IF ~RateMissing(hotel) THEN hotel.corporate_rate * 100 ELSE 10000 * FP)
    + (IF Truthy(hotel.distance_to_venue_km)
       THEN hotel.distance_to_venue_km * 10 ELSE 0)
    + (IF Truthy(hotel.capacity)
       THEN Abs(hotel.capacity - room_nights.peak_occupancy) * 5 * FP ELSE 0)

\* hotel.py 136-163: "for hotel in hotels" from hotel k on; best is None or
\* the best hotel so far, with its score
RECURSIVE BestHotel(_, _, _, _)
BestHotel(best, hotel_list, k, room_nights) ==
    IF k > Len(hotel_list) THEN best
    ELSE LET hotel == hotel_list[k]
             score == HotelScore(hotel, room_nights)
         IN  IF Truthy(hotel.capacity) /\ hotel.capacity < room_nights.peak_occupancy
             THEN BestHotel(best, hotel_list, k + 1, room_nights)
             ELSE IF best = None \/ score < best.score
             THEN BestHotel([hotel |-> hotel, score |-> score], hotel_list, k + 1,
                            room_nights)
             ELSE BestHotel(best, hotel_list, k + 1, room_nights)

HotelMatches(hotel, airport_code, approved_only) ==
    hotel.airport_code = airport_code /\ (approved_only => hotel.approved)

RECURSIVE QueryHotels(_, _, _)
QueryHotels(hotel_table, airport_code, approved_only) ==
    IF hotel_table = <<>> THEN <<>>
    ELSE (IF HotelMatches(hotel_table[1], airport_code, approved_only)
          THEN <<hotel_table[1]>> ELSE <<>>)
         \o QueryHotels(Tail(hotel_table), airport_code, approved_only)

\* hotel.py 103-182; hotel_table is the hotels table behind db
select_optimal_hotel(airport_code, num_attendees, room_nights, approved_only, hotel_table) ==
    LET hotel_list == QueryHotels(hotel_table, airport_code, approved_only)
        best == BestHotel(None, hotel_list, 1, room_nights)
    IN  IF hotel_list = <<>> THEN None
        ELSE IF best = None THEN None
        ELSE [hotel_id |-> best.hotel.id,
              total_cost |-> calculate_hotel_cost(best.hotel,
                                                  room_nights.total_room_nights,
                                                  room_nights.shoulder_nights),
              room_nights |-> room_nights.total_room_nights,
              extra_nights |-> room_nights.shoulder_nights,
              room_night_analysis |-> room_nights]

-----------------------------------------------------------------------------
(* TransferBatchingService (transfer.py) *)

WAVE_WINDOW_MINUTES == 30
VAN_THRESHOLD == 3

FromTimestamp(ts) ==
    [date |-> ts \div 1440, hour |-> (ts % 1440) \div 60, minute |-> ts % 60]

AddMinutes(dt, minutes) == FromTimestamp(Timestamp(dt) + minutes)

\* tuple order of (arrival_time, attendee_id)
ArrivalBefore(a, b) ==
    \/ Timestamp(a[1]) < Timestamp(b[1])
    \/ Timestamp(a[1]) = Timestamp(b[1]) /\ a[2] <= b[2]

\* sorted(zip(arrival_times, attendee_ids))
RECURSIVE InsertArrival(_, _)
InsertArrival(sorted, x) ==
    IF sorted = <<>> THEN <<x>>
    ELSE IF ArrivalBefore(sorted[1], x)
         THEN <<sorted[1]>> \o InsertArrival(Tail(sorted), x)
         ELSE <<x>> \o sorted

RECURSIVE SortedArrivals(_, _, _)
SortedArrivals(arrival_times, attendee_ids, n) ==
    IF n = 0 THEN <<>>
    ELSE InsertArrival(SortedArrivals(arrival_times, attendee_ids, n - 1),
                       <<arrival_times[n], attendee_ids[n]>>)

TransferWave(wave_start, wave_end, ids) ==
    [wave_start |-> wave_start, wave_end |-> wave_end,
     attendee_count |-> Len(ids), attendee_ids |-> ids]

\* as WaveLoop, but the window slides: wave_end moves with every arrival added
RECURSIVE WaveLoopSliding(_, _, _, _, _)
WaveLoopSliding(waves, cur, sorted_data, k, wave_window_minutes) ==
    IF k > Len(sorted_data)
    THEN IF cur = None THEN waves
         ELSE Append(waves, TransferWave(cur.wave_start, cur.wave_end, cur.ids))
    ELSE LET arrival_time == sorted_data[k][1]
             attendee_id == sorted_data[k][2]
             opened == [wave_start |-> arrival_time,
                        wave_end |-> AddMinutes(arrival_time, wave_window_minutes),
                        ids |-> <<attendee_id>>]
         IN  IF cur = None
             THEN WaveLoopSliding(waves, opened, sorted_data, k + 1, wave_window_minutes)
             ELSE IF Timestamp(arrival_time) <= Timestamp(cur.wave_end)
             THEN WaveLoopSliding(waves,
                                  [cur EXCEPT !.ids = Append(@, attendee_id),
                                              !.wave_end = opened.wave_end],
                                  sorted_data, k + 1, wave_window_minutes)
             ELSE WaveLoopSliding(Append(waves, TransferWave(cur.wave_start,
                                                             cur.wave_end, cur.ids)),
                                  opened, sorted_data, k + 1, wave_window_minutes)

\* transfer.py 48-80: the loop over sorted_data from entry k on; cur is the
\* open wave (None before the first arrival)
RECURSIVE WaveLoop(_, _, _, _, _)
WaveLoop(waves, cur, sorted_data, k, wave_window_minutes) ==
    IF k > Len(sorted_data)
    THEN IF cur = None THEN waves
         ELSE Append(waves, TransferWave(cur.wave_start, cur.wave_end, cur.ids))
    ELSE LET arrival_time == sorted_data[k][1]
             attendee_id == sorted_data[k][2]
             opened == [wave_start |-> arrival_time,
                        wave_end |-> AddMinutes(arrival_time, wave_window_minutes),
                        ids |-> <<attendee_id>>]
         IN  IF cur = None
             THEN WaveLoop(waves, opened, sorted_data, k + 1, wave_window_minutes)
             ELSE IF Timestamp(arrival_time) <= Timestamp(cur.wave_end)
             THEN WaveLoop(waves, [cur EXCEPT !.ids = Append(@, attendee_id)],
                           sorted_data, k + 1, wave_window_minutes)
             ELSE WaveLoop(Append(waves, TransferWave(cur.wave_start, cur.wave_end,
                                                      cur.ids)),
                           opened, sorted_data, k + 1, wave_window_minutes)

\* transfer.py 16-82; raised = the ValueError for lists of different length
compute_arrival_waves(arrival_times, attendee_ids, wave_window_minutes) ==
    IF arrival_times = <<>> \/ attendee_ids = <<>>
    THEN [raised |-> FALSE, waves |-> <<>>]
    ELSE IF Len(arrival_times) # Len(attendee_ids)
    THEN [raised |-> TRUE, waves |-> <<>>]
    ELSE [raised |-> FALSE,
          waves |-> WaveLoop(<<>>, None,
                             SortedArrivals(arrival_times, attendee_ids,
                                            Len(arrival_times)),
                             1, wave_window_minutes)]

RECURSIVE QueryTransferOptions(_, _, _)
QueryTransferOptions(option_table, airport_code, hotel_id) ==
    IF option_table = <<>> THEN <<>>
    ELSE (IF option_table[1].airport_code = airport_code
             /\ option_table[1].hotel_id = hotel_id
          THEN <<option_table[1]>> ELSE <<>>)
         \o QueryTransferOptions(Tail(option_table), airport_code, hotel_id)

\* next((to for to in transfer_options if to.mode == mode), None), with the
\* fallback to the first option
FirstOfMode(options, mode) ==
    IF \E i \in DOMAIN options : options[i].mode = mode
    THEN options[CHOOSE i \in DOMAIN options :
                            /\ options[i].mode = mode
                            /\ \A j \in 1 .. i - 1 : options[j].mode # mode]
    ELSE options[1]

\* as TransferLeg, but a wave needs more than VAN_THRESHOLD attendees for a van
TransferLegAboveThreshold(wave, van_option, uber_option) ==
    IF wave.attendee_count > VAN_THRESHOLD
    THEN LET vehicles_needed ==
                (wave.attendee_count + van_option.capacity - 1)
                \div van_option.capacity
         IN  [wave |-> wave, mode |-> "van", vehicle_count |-> vehicles_needed,
              total_cost |-> vehicles_needed * van_option.cost_per_trip,
              capacity_utilization |->
                  (wave.attendee_count * FP)
                  \div (vehicles_needed * van_option.capacity)]
    ELSE [wave |-> wave, mode |-> "uber", vehicle_count |-> wave.attendee_count,
          total_cost |-> wave.attendee_count * uber_option.cost_per_trip,
          capacity_utilization |-> FP]

\* transfer.py 131-161: the leg of one wave
TransferLeg(wave, van_option, uber_option) ==
    IF wave.attendee_count >= VAN_THRESHOLD
    THEN LET vehicles_needed ==
                (wave.attendee_count + van_option.capacity - 1)
                \div van_option.capacity
         IN  [wave |-> wave, mode |-> "van", vehicle_count |-> vehicles_needed,
              total_cost |-> vehicles_needed * van_option.cost_per_trip,
              capacity_utilization |->
                  (wave.attendee_count * FP)
                  \div (vehicles_needed * van_option.capacity)]
    ELSE [wave |-> wave, mode |-> "uber", vehicle_count |-> wave.attendee_count,
          total_cost |-> wave.attendee_count * uber_option.cost_per_trip,
          capacity_utilization |-> FP]

\* transfer.py 184-213
calculate_complexity_score(total_vehicles, legs) ==
    LET vehicle_complexity == total_vehicles * 10 * FP
        wave_complexity == Len(legs) * 5 * FP
        modes == { legs[i].mode : i \in DOMAIN legs }
        mode_complexity == Cardinality(modes) * 3 * FP
        avg_utilization ==
            IF legs # <<>>
            THEN SeqSum([i \in DOMAIN legs |-> legs[i].capacity_utilization])
                 \div Len(legs)
            ELSE FP
        utilization_penalty == (FP - avg_utilization) * 20
    IN  vehicle_complexity + wave_complexity + mode_complexity + utilization_penalty

\* as optimize_transfers, but total_vehicles counts the legs
optimize_transfersCountLegs(waves, airport_code, hotel_id, option_table) ==
    LET options == QueryTransferOptions(option_table, airport_code, hotel_id)
        van_option == FirstOfMode(options, "van")
        uber_option == FirstOfMode(options, "uber")
        legs == [i \in DOMAIN waves |-> TransferLeg(waves[i], van_option, uber_option)]
        total_cost == SeqSum([i \in DOMAIN legs |-> legs[i].total_cost])
        total_vehicles == Len(legs)
    IN  IF options = <<>> THEN None
        ELSE [airport_code |-> airport_code, hotel_id |-> hotel_id,
              total_cost |-> Round2(total_cost),
              total_vehicles |-> total_vehicles,
              legs |-> legs,
              operational_complexity_score |->
                  calculate_complexity_score(total_vehicles, legs)]

\* transfer.py 84-182; option_table is the transfer_options table behind db
optimize_transfers(waves, airport_code, hotel_id, option_table) ==
    LET options == QueryTransferOptions(option_table, airport_code, hotel_id)
        van_option == FirstOfMode(options, "van")
        uber_option == FirstOfMode(options, "uber")
        legs == [i \in DOMAIN waves |-> TransferLeg(waves[i], van_option, uber_option)]
        total_cost == SeqSum([i \in DOMAIN legs |-> legs[i].total_cost])
        total_vehicles == SeqSum([i \in DOMAIN legs |-> legs[i].vehicle_count])
    IN  IF options = <<>> THEN None
        ELSE [airport_code |-> airport_code, hotel_id |-> hotel_id,
              total_cost |-> Round2(total_cost),
              total_vehicles |-> total_vehicles,
              legs |-> legs,
              operational_complexity_score |->
                  calculate_complexity_score(total_vehicles, legs)]

-----------------------------------------------------------------------------
(* OptimiserService: baseline scoring and simulate_option *)

_calculate_score(total_cost, arrival_spread_minutes, avg_travel_time_minutes, connections_rate) ==
    total_cost * 1
    + arrival_spread_minutes * 5
    + avg_travel_time_minutes * 2
    + connections_rate * 500

\* as _calculate_score_v2, with the hotel and transfer weights exchanged
ScoreV2WeightsSwapped(flight_cost, hotel_cost, transfer_cost, arrival_spread_minutes, avg_travel_time_minutes, connections_rate, late_arrival_risk, operational_complexity_score) ==
    flight_cost * 1
    + (hotel_cost * 5) \div 10
    + (transfer_cost * 8) \div 10
    + arrival_spread_minutes * 5
    + avg_travel_time_minutes * 2
    + connections_rate * 500
    + late_arrival_risk * 200
    + operational_complexity_score * 300

\* optimiser.py 270-279; the weights 0.8 and 0.5 as 8/10 and 5/10
_calculate_score_v2(flight_cost, hotel_cost, transfer_cost, arrival_spread_minutes, avg_travel_time_minutes, connections_rate, late_arrival_risk, operational_complexity_score) ==
    flight_cost * 1
    + (hotel_cost * 8) \div 10
    + (transfer_cost * 5) \div 10
    + arrival_spread_minutes * 5
    + avg_travel_time_minutes * 2
    + connections_rate * 500
    + late_arrival_risk * 200
    + operational_complexity_score * 300

_time_to_minutes(time_obj) == time_obj.hour * 60 + time_obj.minute

\* the answer of the pricing provider the optimiser holds: a deterministic
\* quote for the request
PricingProviderQuote(req) == _generate_itinerary(req, FALSE)

AttendeeConstraints(attendee) ==
    Constraints(IF attendee.travel_class = NoClass THEN "economy"
                ELSE attendee.travel_class, "std")

EmptyAccumulator ==
    [raised |-> FALSE, attendee_itineraries |-> <<>>, all_arrival_times |-> <<>>,
     total_cost |-> 0, total_travel_time |-> 0, connections_count |-> 0]

\* as SimulateOptionStep, but the new itinerary is put in front of the list
SimulateOptionStepPrepend(acc, attendee, location, depart_date, return_date) ==
    LET itinerary == PricingProviderQuote(
                        Request(attendee.home_airport, location, depart_date,
                                return_date, AttendeeConstraints(attendee)))
    IN  [raised |-> FALSE,
         attendee_itineraries |->
            <<[attendee_id |-> attendee.id,
               employee_id |-> attendee.employee_id,
               itinerary |-> itinerary]>> \o acc.attendee_itineraries,
         all_arrival_times |->
            Append(acc.all_arrival_times, _time_to_minutes(itinerary.arrive_time)),
         total_cost |-> acc.total_cost + itinerary.price,
         total_travel_time |-> acc.total_travel_time + itinerary.travel_minutes,
         connections_count |->
            acc.connections_count + (IF itinerary.stops > 0 THEN 1 ELSE 0)]

\* one pass of "for attendee in attendees" (optimiser.py 110-144): the k-th
\* attendee is priced and accumulated; the pricing call number fail_at raises
SimulateOptionStep(acc, attendee, location, depart_date, return_date) ==
    LET itinerary == PricingProviderQuote(
                        Request(attendee.home_airport, location, depart_date,
                                return_date, AttendeeConstraints(attendee)))
    IN  [raised |-> FALSE,
         attendee_itineraries |->
            Append(acc.attendee_itineraries,
                   [attendee_id |-> attendee.id,
                    employee_id |-> attendee.employee_id,
                    itinerary |-> itinerary]),
         all_arrival_times |->
            Append(acc.all_arrival_times, _time_to_minutes(itinerary.arrive_time)),
         total_cost |-> acc.total_cost + itinerary.price,
         total_travel_time |-> acc.total_travel_time + itinerary.travel_minutes,
         connections_count |->
            acc.connections_count + (IF itinerary.stops > 0 THEN 1 ELSE 0)]

RECURSIVE SimulateOptionLoop(_, _, _, _, _, _, _)
SimulateOptionLoop(acc, attendee_list, k, location, depart_date, return_date, fail_at) ==
    IF k > Len(attendee_list) THEN acc
    ELSE IF k = fail_at THEN [acc EXCEPT !.raised = TRUE]
    ELSE SimulateOptionLoop(
            SimulateOptionStep(acc, attendee_list[k], location, depart_date, return_date),
            attendee_list, k + 1, location, depart_date, return_date, fail_at)

\* simulate_option (optimiser.py 81-175); raised = the pricing provider's
\* exception left the function
simulate_option(location, date_window, attendee_list, duration_days, fail_at) ==
    LET depart_date == date_window.start_date
        return_date == date_window.start_date + duration_days
        acc == SimulateOptionLoop(EmptyAccumulator, attendee_list, 1, location,
                                  depart_date, return_date, fail_at)
        num_attendees == Len(attendee_list)
        avg_travel_time_minutes ==
            IF num_attendees > 0
            THEN (acc.total_travel_time * FP) \div num_attendees ELSE 0
        connections_rate ==
            IF num_attendees > 0
            THEN (acc.connections_count * FP) \div num_attendees ELSE 0
        arrival_spread_minutes ==
            IF acc.all_arrival_times # <<>>
            THEN SeqMax(acc.all_arrival_times) - SeqMin(acc.all_arrival_times)
            ELSE 0
        score == _calculate_score(acc.total_cost, arrival_spread_minutes * FP,
                                  avg_travel_time_minutes, connections_rate)
    IN  IF acc.raised
        THEN [raised |-> TRUE, result |-> None]
        ELSE [raised |-> FALSE,
              result |->
                [location |-> location,
                 date_window_start |-> date_window.start_date,
                 date_window_end |-> date_window.end_date,
                 total_cost |-> Round2(acc.total_cost),
                 avg_travel_time_minutes |-> Round2(avg_travel_time_minutes),
                 arrival_spread_minutes |-> Round2(arrival_spread_minutes * FP),
                 connections_rate |->
                    IF num_attendees > 0
                    THEN RoundRate4(acc.connections_count, num_attendees) ELSE 0,
                 score |-> Round2(score),
                 attendee_itineraries |-> acc.attendee_itineraries]]

\* optimiser.py 312-329
_calculate_late_arrival_risk(arrival_times) ==
    IF arrival_times = <<>> THEN 0
    ELSE LET late_count ==
                Cardinality({ i \in DOMAIN arrival_times : arrival_times[i].hour >= 18 })
         IN  (late_count * FP) \div Len(arrival_times)

\* optimiser.py 331-350: 24 hourly buckets, hour h at position h + 1
_build_arrival_histogram(arrival_times) ==
    [b \in 1 .. 24 |->
        Cardinality({ i \in DOMAIN arrival_times : arrival_times[i].hour = b - 1 })]

\* optimiser.py 281-310: 1000 km per leg, 0.25 kg per km
_calculate_co2_estimate(attendee_itineraries) ==
    Round2(SeqSum([i \in DOMAIN attendee_itineraries |->
                     (1000 * (attendee_itineraries[i].itinerary.stops + 1) * FP)
                     \div 4]))

EmptyAccumulatorV2 ==
    [raised |-> FALSE, attendee_itineraries |-> <<>>, all_arrival_times |-> <<>>,
     all_departure_times |-> <<>>, total_cost |-> 0, total_travel_time |-> 0,
     connections_count |-> 0]

\* as SimulateOptionV2Step, but the departure is dated the day after return_date
SimulateOptionV2StepLateDeparture(acc, attendee, location, depart_date, return_date) ==
    LET itinerary == PricingProviderQuote(
                        Request(attendee.home_airport, location, depart_date,
                                return_date, AttendeeConstraints(attendee)))
        arrival_dt == DateTime(depart_date, itinerary.arrive_time)
        departure_dt == DateTime(return_date + 1, Time(10, 0))
    IN  [raised |-> FALSE,
         attendee_itineraries |->
            Append(acc.attendee_itineraries,
                   [attendee_id |-> attendee.id,
                    employee_id |-> attendee.employee_id,
                    itinerary |-> itinerary]),
         all_arrival_times |-> Append(acc.all_arrival_times, arrival_dt),
         all_departure_times |-> Append(acc.all_departure_times, departure_dt),
         total_cost |-> acc.total_cost + itinerary.price,
         total_travel_time |-> acc.total_travel_time + itinerary.travel_minutes,
         connections_count |->
            acc.connections_count + (IF itinerary.stops > 0 THEN 1 ELSE 0)]

\* one pass of "for attendee in attendees" (optimiser.py 388-421); the
\* itinerary has no attribute return_depart_time, so the departure is at 10:00
SimulateOptionV2Step(acc, attendee, location, depart_date, return_date) ==
    LET itinerary == PricingProviderQuote(
                        Request(attendee.home_airport, location, depart_date,
                                return_date, AttendeeConstraints(attendee)))
        arrival_dt == DateTime(depart_date, itinerary.arrive_time)
        departure_dt == DateTime(return_date, Time(10, 0))
    IN  [raised |-> FALSE,
         attendee_itineraries |->
            Append(acc.attendee_itineraries,
                   [attendee_id |-> attendee.id,
                    employee_id |-> attendee.employee_id,
                    itinerary |-> itinerary]),
         all_arrival_times |-> Append(acc.all_arrival_times, arrival_dt),
         all_departure_times |-> Append(acc.all_departure_times, departure_dt),
         total_cost |-> acc.total_cost + itinerary.price,
         total_travel_time |-> acc.total_travel_time + itinerary.travel_minutes,
         connections_count |->
            acc.connections_count + (IF itinerary.stops > 0 THEN 1 ELSE 0)]

RECURSIVE SimulateOptionV2Loop(_, _, _, _, _, _, _)
SimulateOptionV2Loop(acc, attendee_list, k, location, depart_date, return_date, fail_at) ==
    IF k > Len(attendee_list) THEN acc
    ELSE IF k = fail_at THEN [acc EXCEPT !.raised = TRUE]
    ELSE SimulateOptionV2Loop(
            SimulateOptionV2Step(acc, attendee_list[k], location, depart_date,
                                 return_date),
            attendee_list, k + 1, location, depart_date, return_date, fail_at)

\* optimiser.py 480-521: the additional metrics, the score and the result,
\* from the accumulated flights acc, the hotel assignment and the transfer plan
OptionResultV2(acc, hotel_assignment, transfer_plan, location, date_window, num_attendees) ==
    LET avg_travel_time_minutes ==
            IF num_attendees > 0
            THEN (acc.total_travel_time * FP) \div num_attendees ELSE 0
        connections_rate ==
            IF num_attendees > 0
            THEN (acc.connections_count * FP) \div num_attendees ELSE 0
        stamps == [i \in DOMAIN acc.all_arrival_times |->
                      Timestamp(acc.all_arrival_times[i])]
        arrival_spread_minutes ==
            IF acc.all_arrival_times # <<>>
            THEN (SeqMax(stamps) - SeqMin(stamps)) * FP ELSE 0
        hotel_cost == IF hotel_assignment # None THEN hotel_assignment.total_cost ELSE 0
        extra_nights_count ==
            IF hotel_assignment # None THEN hotel_assignment.extra_nights ELSE 0
        transfer_cost == IF transfer_plan # None THEN transfer_plan.total_cost ELSE 0
        operational_complexity_score ==
            IF transfer_plan # None
            THEN transfer_plan.operational_complexity_score ELSE 0
        late_arrival_risk == _calculate_late_arrival_risk(acc.all_arrival_times)
        score == _calculate_score_v2(acc.total_cost, hotel_cost, transfer_cost,
                                     arrival_spread_minutes, avg_travel_time_minutes,
                                     connections_rate, late_arrival_risk,
                                     operational_complexity_score)
    IN  [location |-> location,
         date_window_start |-> date_window.start_date,
         date_window_end |-> date_window.end_date,
         total_cost |-> Round2(acc.total_cost),
         avg_travel_time_minutes |-> Round2(avg_travel_time_minutes),
         arrival_spread_minutes |-> Round2(arrival_spread_minutes),
         connections_rate |->
            IF num_attendees > 0
            THEN RoundRate4(acc.connections_count, num_attendees) ELSE 0,
         score |-> Round2(score),
         attendee_itineraries |-> acc.attendee_itineraries,
         hotel_cost |-> Round2(hotel_cost),
         extra_nights_count |-> extra_nights_count,
         transfer_cost |-> Round2(transfer_cost),
         operational_complexity_score |-> Round2(operational_complexity_score),
         co2_estimate_kg |-> _calculate_co2_estimate(acc.attendee_itineraries),
         late_arrival_risk |->
            RoundRate4(Cardinality({ i \in DOMAIN acc.all_arrival_times :
                                        acc.all_arrival_times[i].hour >= 18 }),
                       Max(Len(acc.all_arrival_times), 1)),
         hotel_assignment |-> hotel_assignment,
         transfer_plan |-> transfer_plan,
         arrival_histogram |-> _build_arrival_histogram(acc.all_arrival_times)]

\* optimiser.py 433-455: the hotel assignment, or None
HotelPhase(acc, location, num_attendees, duration_days, hotel_table, include_hotels) ==
    IF include_hotels /\ acc.all_arrival_times # <<>>
    THEN select_optimal_hotel(
            location, num_attendees,
            compute_room_nights(acc.all_arrival_times, acc.all_departure_times,
                                duration_days),
            TRUE, hotel_table)
    ELSE None

\* as TransferPhase, but a plan is made for hotel 2 when no hotel is assigned
TransferPhaseWithoutHotel(acc, hotel_assignment, location, option_table, include_transfers) ==
    IF include_transfers /\ acc.all_arrival_times # <<>>
    THEN optimize_transfers(
            compute_arrival_waves(
                acc.all_arrival_times,
                [i \in DOMAIN acc.attendee_itineraries |->
                    acc.attendee_itineraries[i].attendee_id],
                WAVE_WINDOW_MINUTES).waves,
            location,
            IF hotel_assignment # None THEN hotel_assignment.hotel_id ELSE 2,
            option_table)
    ELSE None

\* optimiser.py 457-478: the transfer plan, or None
TransferPhase(acc, hotel_assignment, location, option_table, include_transfers) ==
    IF include_transfers /\ acc.all_arrival_times # <<>> /\ hotel_assignment # None
    THEN optimize_transfers(
            compute_arrival_waves(
                acc.all_arrival_times,
                [i \in DOMAIN acc.attendee_itineraries |->
                    acc.attendee_itineraries[i].attendee_id],
                WAVE_WINDOW_MINUTES).waves,
            location, hotel_assignment.hotel_id, option_table)
    ELSE None

\* optimiser.py 423-521, after the flights of every attendee are accumulated
OptionV2AfterHotel(acc, hotel_assignment, location, date_window, num_attendees, option_table, include_transfers) ==
    OptionResultV2(acc, hotel_assignment,
                   TransferPhase(acc, hotel_assignment, location, option_table,
                                 include_transfers),
                   location, date_window, num_attendees)

OptionV2AfterFlights(acc, location, date_window, num_attendees, duration_days, hotel_table, option_table, include_hotels, include_transfers) ==
    IF acc.raised
    THEN [raised |-> TRUE, result |-> None]
    ELSE [raised |-> FALSE,
          result |->
            OptionV2AfterHotel(acc,
                               HotelPhase(acc, location, num_attendees, duration_days,
                                          hotel_table, include_hotels),
                               location, date_window, num_attendees, option_table,
                               include_transfers)]

\* simulate_option_v2 (optimiser.py 352-521); db is the two tables; raised =
\* the pricing provider's exception left the function
simulate_option_v2(location, date_window, attendee_list, duration_days, hotel_table, option_table, include_hotels, include_transfers, fail_at) ==
    OptionV2AfterFlights(
        SimulateOptionV2Loop(EmptyAccumulatorV2, attendee_list, 1, location,
                             date_window.start_date,
                             date_window.start_date + duration_days, fail_at),
        location, date_window, Len(attendee_list), duration_days, hotel_table,
        option_table, include_hotels, include_transfers)

\* the date-window parsing loop of simulate_event (optimiser.py 200-214 and
\* api/events.py 142-155): entries that are no dict are skipped
ParseDateField(field, today) ==
    IF field.t = "str" THEN field.v      \* strptime(..., "%Y-%m-%d").date()
    ELSE IF field.t = "date" THEN field.v
    ELSE today

\* as ParseDateWindows, but an entry that is no dict becomes a window of today
RECURSIVE ParseDateWindowsKeepAll(_, _)
ParseDateWindowsKeepAll(raw, today) ==
    IF raw = <<>> THEN <<>>
    ELSE LET dw == raw[1]
             rest == ParseDateWindowsKeepAll(Tail(raw), today)
         IN  <<[start_date |-> ParseDateField(dw.start_date, today),
                end_date |-> ParseDateField(dw.end_date, today)]>> \o rest

RECURSIVE ParseDateWindows(_, _)
ParseDateWindows(raw, today) ==
    IF raw = <<>> THEN <<>>
    ELSE LET dw == raw[1]
             rest == ParseDateWindows(Tail(raw), today)
         IN  IF dw.kind = "dict"
             THEN <<[start_date |-> ParseDateField(dw.start_date, today),
                     end_date |-> ParseDateField(dw.end_date, today)]>> \o rest
             ELSE rest

\* as InsertByScore, but index i goes in front of the indices of equal score
RECURSIVE InsertByScoreBeforeEqual(_, _, _)
InsertByScoreBeforeEqual(sorted, i, option_results) ==
    IF sorted = <<>> THEN <<i>>
    ELSE IF option_results[sorted[1] + 1].score < option_results[i + 1].score
         THEN <<sorted[1]>> \o InsertByScoreBeforeEqual(Tail(sorted), i, option_results)
         ELSE <<i>> \o sorted

\* sorted(range(len(option_results)), key=lambda i: option_results[i].score):
\* a stable sort; index i goes after every index already placed whose score is
\* not greater
RECURSIVE InsertByScore(_, _, _)
InsertByScore(sorted, i, option_results) ==
    IF sorted = <<>> THEN <<i>>
    ELSE IF option_results[sorted[1] + 1].score <= option_results[i + 1].score
         THEN <<sorted[1]>> \o InsertByScore(Tail(sorted), i, option_results)
         ELSE <<i>> \o sorted

RECURSIVE RankPrefix(_, _)
RankPrefix(option_results, n) ==
    IF n = 0 THEN <<>>
    ELSE InsertByScore(RankPrefix(option_results, n - 1), n - 1, option_results)

ranked_indices(option_results) == RankPrefix(option_results, Len(option_results))


-----------------------------------------------------------------------------
(* The simulate endpoint (api/events.py) and simulate_event (optimiser.py) *)

\* attendee number i of the Attendee table
AttendeeRow(i) ==
    [id |-> i, employee_id |-> 100 + i,
     home_airport |-> IF i % 2 = 1 THEN "JFK" ELSE "LAX",
     travel_class |-> CASE i % 4 = 1 -> "economy" [] i % 4 = 2 -> "business"
                        [] i % 4 = 3 -> NoClass [] OTHER -> "first"]

\* entries of the candidate_date_windows JSON column
IsoDate(d) == [t |-> "str", v |-> d]
DateObj(d) == [t |-> "date", v |-> d]
Absent == [t |-> "none", v |-> 0]
WindowEntries ==
    { [kind |-> "dict", start_date |-> IsoDate(1), end_date |-> DateObj(8)],
      [kind |-> "dict", start_date |-> Absent, end_date |-> Absent],
      [kind |-> "other", start_date |-> Absent, end_date |-> Absent] }

\* date.today(): after every stored date
Today == 8 + 1

SeqsUpTo(S, n) == UNION { [1..k -> S] : k \in 0..n }

\* the hotels and transfer_options tables when they are populated
HotelCatalog ==
    << [id |-> 1, airport_code |-> "LIS", approved |-> TRUE,
        corporate_rate |-> 200 * FP, distance_to_venue_km |-> 5 * FP,
        capacity |-> 10],
       [id |-> 2, airport_code |-> "LIS", approved |-> TRUE,
        corporate_rate |-> NoRate, distance_to_venue_km |-> NoValue,
        capacity |-> NoValue],
       [id |-> 3, airport_code |-> "MUC", approved |-> FALSE,
        corporate_rate |-> 120 * FP, distance_to_venue_km |-> 2 * FP,
        capacity |-> 40] >>

TransferCatalog ==
    << [airport_code |-> "LIS", hotel_id |-> 2, mode |-> "uber", capacity |-> 3,
        cost_per_trip |-> 30 * FP],
       [airport_code |-> "LIS", hotel_id |-> 2, mode |-> "van", capacity |-> 4,
        cost_per_trip |-> 80 * FP] >>

\* a transfer_options table with rows for another hotel only
OtherHotelCatalog ==
    << [airport_code |-> "LIS", hotel_id |-> 1, mode |-> "van", capacity |-> 4,
        cost_per_trip |-> 80 * FP] >>

\* api/events.py 135-136
has_hotels ==
    LET airport_code == IF event.candidate_locations # <<>>
                        THEN event.candidate_locations[1] ELSE ""
    IN  QueryHotels(hotels, airport_code, FALSE) # <<>>

has_transfers == transfer_options # <<>>

InitSim ==
    /\ \E locs \in SeqsUpTo(Destinations, MaxLocations),
          wins \in SeqsUpTo(WindowEntries, MaxWindows) :
            \E duration_days \in {1, EventDuration} :
            event = [candidate_locations |-> locs,
                     candidate_date_windows |-> wins,
                     duration_days |-> duration_days]
    /\ \E n \in 0..MaxAttendees, dangling \in 0..1 :
          /\ n > 0 => dangling = 0
          /\ attendees = [i \in 1..n |-> AttendeeRow(i)]
          /\ attendee_count = n + dangling
    /\ hotels \in {<<>>, HotelCatalog}
    /\ transfer_options \in {<<>>, TransferCatalog, OtherHotelCatalog}
    /\ pc = "idle"
    /\ date_windows = <<>>
    /\ loc_i = 1
    /\ win_j = 1
    /\ results = <<>>
    /\ sim_error = None
    /\ response = None
    /\ hotel_call = None
    /\ hotel_ret = None
    /\ score_call = None
    /\ score_ret = None
    /\ in_memory_cache = <<>>
    /\ price_cache = {}
    /\ first_served = {}
    /\ last_call = None
    /\ pricing_calls = 0
    /\ transfer_call = None
    /\ transfer_ret = None
    /\ whatif_call = None
    /\ whatif_ret = None
    /\ duffel_cache = <<>>
    /\ duffel_calls = <<>>
    /\ duffel_log = <<>>

HttpError(status, detail) ==
    [status |-> status, detail |-> detail, results |-> <<>>, ranked_options |-> <<>>]

\* api/events.py 114-179: the request is refused for an event without attendee
\* rows; otherwise the V2 loop is entered when hotels or transfers are
\* configured, else OptimiserService.simulate_event is called
ApiSimulateEvent ==
    /\ pc = "idle"
    /\ IF attendee_count = 0
       THEN /\ pc' = "done"
            /\ response' = HttpError(400, "Event has no attendees attached")
            /\ UNCHANGED date_windows
       ELSE IF has_hotels \/ has_transfers
       THEN /\ pc' = "v2_loop"
            /\ date_windows' = ParseDateWindows(event.candidate_date_windows, Today)
            /\ UNCHANGED response
       ELSE /\ pc' = "v1_call"
            /\ UNCHANGED <<date_windows, response>>
    /\ UNCHANGED <<event, attendees, attendee_count, hotels, transfer_options, loc_i, win_j,
                   results, sim_error>>
    /\ UNCHANGED notSimVars

\* optimiser.py 192-217: no attendees, an empty list is returned at once
SimulateEventStart ==
    /\ pc = "v1_call"
    /\ IF attendees = <<>>
       THEN /\ pc' = "returned"
            /\ UNCHANGED date_windows
       ELSE /\ pc' = "v1_loop"
            /\ date_windows' = ParseDateWindows(event.candidate_date_windows, Today)
    /\ UNCHANGED <<event, attendees, attendee_count, hotels, transfer_options, loc_i, win_j,
                   results, sim_error, response>>
    /\ UNCHANGED notSimVars

\* an exception of the pricing provider leaves simulate_option, the loops and
\* the endpoint: nothing catches it
PricingRaised(at) ==
    /\ pc' = "done"
    /\ sim_error' = [location |-> loc_i, window |-> win_j, attendee |-> at]
    /\ response' = HttpError(500, "Internal Server Error")
    /\ UNCHANGED <<results, win_j>>

\* optimiser.py 219-227: one pass of the inner loop
SimulateEventOption ==
    /\ pc = "v1_loop"
    /\ loc_i <= Len(event.candidate_locations)
    /\ win_j <= Len(date_windows)
    /\ \E fail_at \in 0..Len(attendees) :
          LET r == simulate_option(event.candidate_locations[loc_i],
                                   date_windows[win_j], attendees,
                                   event.duration_days, fail_at)
          IN  IF r.raised
              THEN PricingRaised(fail_at)
              ELSE /\ results' = Append(results, r.result)
                   /\ win_j' = win_j + 1
                   /\ UNCHANGED <<pc, sim_error, response>>
    /\ UNCHANGED <<event, attendees, attendee_count, hotels, transfer_options, date_windows,
                   loc_i>>
    /\ UNCHANGED notSimVars

\* api/events.py 164-176: one pass of the inner loop of the V2 branch
ApiSimulateOptionV2 ==
    /\ pc = "v2_loop"
    /\ loc_i <= Len(event.candidate_locations)
    /\ win_j <= Len(date_windows)
    /\ \E fail_at \in 0..Len(attendees) :
          LET r == simulate_option_v2(event.candidate_locations[loc_i],
                                      date_windows[win_j], attendees,
                                      event.duration_days, hotels, transfer_options,
                                      has_hotels, has_transfers, fail_at)
          IN  IF r.raised
              THEN PricingRaised(fail_at)
              ELSE /\ results' = Append(results, r.result)
                   /\ win_j' = win_j + 1
                   /\ UNCHANGED <<pc, sim_error, response>>
    /\ UNCHANGED <<event, attendees, attendee_count, hotels, transfer_options,
                   date_windows, loc_i>>
    /\ UNCHANGED notSimVars

\* the inner loop is exhausted: next location
NextLocation ==
    /\ pc \in {"v1_loop", "v2_loop"}
    /\ loc_i <= Len(event.candidate_locations)
    /\ win_j > Len(date_windows)
    /\ loc_i' = loc_i + 1
    /\ win_j' = 1
    /\ UNCHANGED <<event, attendees, attendee_count, hotels, transfer_options, pc,
                   date_windows, results, sim_error, response>>
    /\ UNCHANGED notSimVars

\* optimiser.py 229 (and the end of the loop at api/events.py 164-176)
LoopsReturn ==
    /\ pc \in {"v1_loop", "v2_loop"}
    /\ loc_i > Len(event.candidate_locations)
    /\ pc' = "returned"
    /\ UNCHANGED <<event, attendees, attendee_count, hotels, transfer_options, date_windows,
                   loc_i, win_j, results, sim_error, response>>
    /\ UNCHANGED notSimVars

\* api/events.py 181-235: no results is an error, else the options are ranked
ApiRank ==
    /\ pc = "returned"
    /\ pc' = "done"
    /\ response' =
          IF results = <<>>
          THEN HttpError(400, "No simulation results generated")
          ELSE [status |-> 200, detail |-> "", results |-> results,
                ranked_options |-> ranked_indices(results)]
    /\ UNCHANGED <<event, attendees, attendee_count, hotels, transfer_options, date_windows,
                   loc_i, win_j, results, sim_error>>
    /\ UNCHANGED notSimVars

\* OptionResult(**opt_data): the fields of the base schema are kept
AsOptionResult(opt_data) ==
    [location |-> opt_data.location,
     date_window_start |-> opt_data.date_window_start,
     date_window_end |-> opt_data.date_window_end,
     total_cost |-> opt_data.total_cost,
     avg_travel_time_minutes |-> opt_data.avg_travel_time_minutes,
     arrival_spread_minutes |-> opt_data.arrival_spread_minutes,
     connections_rate |-> opt_data.connections_rate,
     score |-> opt_data.score,
     attendee_itineraries |-> opt_data.attendee_itineraries]

\* api/events.py 238-290: the stored results of the latest simulation are
\* rebuilt and ranked again
ApiGetLatestResults ==
    /\ pc = "done"
    /\ response.status = 200
    /\ pc' = "fetched"
    /\ response' =
          LET option_results == [i \in DOMAIN results |-> AsOptionResult(results[i])]
          IN  [status |-> 200, detail |-> "latest", results |-> option_results,
               ranked_options |-> ranked_indices(option_results)]
    /\ UNCHANGED <<event, attendees, attendee_count, hotels, transfer_options,
                   date_windows, loc_i, win_j, results, sim_error>>
    /\ UNCHANGED notSimVars

SimNext ==
    \/ ApiSimulateEvent
    \/ SimulateEventStart
    \/ SimulateEventOption
    \/ ApiSimulateOptionV2
    \/ NextLocation
    \/ LoopsReturn
    \/ ApiRank
    \/ ApiGetLatestResults

-----------------------------------------------------------------------------
(* Claims about the simulate endpoint and simulate_event *)

\* the response carries a ranking
Ranked == pc \in {"done", "fetched"} /\ response.status = 200

RankedScore(k) == response.results[response.ranked_options[k] + 1].score

\* C1: whenever a simulation (or the re-read of its stored results) answers
\* with results, ranked_options is a permutation of 0..len(results)-1, the
\* scores in ranked order never decrease from one position to the next, and
\* options of equal score keep their original combination order.
C1_RankingIsStableSort ==
    Ranked =>
        LET n == Len(response.results)
            ranked == response.ranked_options
        IN  /\ Len(ranked) = n
            /\ { ranked[k] : k \in 1..n } = 0 .. n - 1
            /\ \A k \in 1 .. n - 1 : RankedScore(k) <= RankedScore(k + 1)
            /\ \A k \in 1..n, l \in 1..n :
                  (k < l /\ RankedScore(k) = RankedScore(l)) => ranked[k] < ranked[l]

\* four options are ranked, two of them tie, and the ranking is not the
\* original order
C1_Witness ==
    /\ Ranked
    /\ Len(response.results) = 4
    /\ \E k \in 1..3 : RankedScore(k) = RankedScore(k + 1)
    /\ \E k \in 1..3 : RankedScore(k) < RankedScore(k + 1)
    /\ response.ranked_options # <<0, 1, 2, 3>>

\* C2: every option result produced by simulate_option or simulate_option_v2
\* has exactly one attendee itinerary per attendee supplied, entry i carrying
\* the id of attendee i, for any number of attendees (zero included).
C2_OneItineraryPerAttendee ==
    \A r \in DOMAIN results :
        /\ Len(results[r].attendee_itineraries) = Len(attendees)
        /\ \A i \in DOMAIN attendees :
              results[r].attendee_itineraries[i].attendee_id = attendees[i].id

\* results for two attendees exist, from either function
C2_Witness ==
    /\ Len(attendees) = 2
    /\ pc = "returned"
    /\ results # <<>>
    /\ results[1].attendee_itineraries[2].attendee_id = attendees[2].id

\* the request went through OptimiserService.simulate_event
ViaSimulateEvent == attendee_count > 0 /\ ~(has_hotels \/ has_transfers)

IsDict(dw) == dw.kind = "dict"

\* the dict entries of the stored date windows, and the start date each
\* stands for
DictEntries == SelectSeq(event.candidate_date_windows, IsDict)

StartOf(dw) == IF dw.start_date.t = "none" THEN Today ELSE dw.start_date.v

\* C3: simulate_event returns an empty list when the event has no attendees;
\* otherwise it returns one result per (candidate location, parsed date
\* window) pair, every window of the first location first, then those of the
\* next, so no location or no parsable window gives an empty list.
C3_CrossProduct ==
    (pc = "returned" /\ ViaSimulateEvent) =>
        LET L == Len(event.candidate_locations)
            W == Len(DictEntries)
        IN  IF attendees = <<>>
            THEN results = <<>> /\ sim_error = None
            ELSE /\ Len(results) = L * W
                 /\ \A l \in 1..L, w \in 1..W :
                       LET r == results[(l - 1) * W + w]
                       IN  /\ r.location = event.candidate_locations[l]
                           /\ r.date_window_start = StartOf(DictEntries[w])

\* two different locations and two different windows: four results
C3_Witness ==
    /\ pc = "returned"
    /\ ViaSimulateEvent
    /\ Len(results) = 4
    /\ results[1].location # results[3].location
    /\ results[1].date_window_start # results[2].date_window_start

\* the number of (location, window) options of the request
OptionCount == Len(event.candidate_locations) * Len(DictEntries)

\* C4: a pricing failure for one option does not abort the evaluation of the
\* sibling options: the request still answers with their results, and the
\* failed option is not among the ranked results.
C4_FailureIsolated ==
    (pc = "done" /\ sim_error # None /\ OptionCount >= 2) =>
        /\ response.status = 200
        /\ Len(response.results) = OptionCount - 1
        /\ Len(response.ranked_options) = OptionCount - 1

-----------------------------------------------------------------------------
(* Calls of the HotelOptimisationService methods on drawn arguments *)

ArrivalDays == 0 .. 1
StayLengths == 0 .. 4
\* Hotel.corporate_rate: None, 0.0, 200.0
CorporateRates == {NoRate, 0, 200 * FP}
RoomNightCounts == {0, 1, 3, 10}
ExtraNightCounts == {0, 1, 2}

Stays == { [arrival |-> DateTime(a, Time(10, 0)),
            departure |-> DateTime(a + n, Time(14, 0))] :
           a \in ArrivalDays, n \in StayLengths }

RoomNightCalls ==
    { [fn |-> "compute_room_nights",
       arrival_times |-> IF drop = "arrivals" THEN <<>>
                         ELSE [i \in 1..Len(stays) |-> stays[i].arrival],
       departure_times |-> IF drop = "departures" THEN <<>>
                           ELSE [i \in 1..Len(stays) |-> stays[i].departure],
       duration_days |-> d] :
      stays \in SeqsUpTo(Stays, MaxGuests), d \in 0..MaxDuration,
      drop \in {"nothing", "arrivals", "departures"} }

HotelCostCalls ==
    { [fn |-> "calculate_hotel_cost",
       hotel |-> [id |-> 1, corporate_rate |-> rate],
       room_nights |-> rn, extra_nights |-> en] :
      rate \in CorporateRates, rn \in RoomNightCounts, en \in ExtraNightCounts }

NoEvent == [candidate_locations |-> <<>>, candidate_date_windows |-> <<>>,
            duration_days |-> EventDuration]

InitHotel ==
    /\ hotel_call \in RoomNightCalls \cup HotelCostCalls
    /\ hotel_ret = None
    /\ event = NoEvent
    /\ attendees = <<>>
    /\ attendee_count = 0
    /\ hotels = <<>>
    /\ transfer_options = <<>>
    /\ pc = "off"
    /\ date_windows = <<>>
    /\ loc_i = 1
    /\ win_j = 1
    /\ results = <<>>
    /\ sim_error = None
    /\ response = None
    /\ score_call = None
    /\ score_ret = None
    /\ in_memory_cache = <<>>
    /\ price_cache = {}
    /\ first_served = {}
    /\ last_call = None
    /\ pricing_calls = 0
    /\ transfer_call = None
    /\ transfer_ret = None
    /\ whatif_call = None
    /\ whatif_ret = None
    /\ duffel_cache = <<>>
    /\ duffel_calls = <<>>
    /\ duffel_log = <<>>

ComputeRoomNights ==
    /\ hotel_call # None
    /\ hotel_call.fn = "compute_room_nights"
    /\ hotel_ret = None
    /\ hotel_ret' = compute_room_nights(hotel_call.arrival_times,
                                        hotel_call.departure_times,
                                        hotel_call.duration_days)
    /\ UNCHANGED <<hotel_call, notHotelVars>>

CalculateHotelCost ==
    /\ hotel_call # None
    /\ hotel_call.fn = "calculate_hotel_cost"
    /\ hotel_ret = None
    /\ hotel_ret' = [cost |-> calculate_hotel_cost(hotel_call.hotel,
                                                   hotel_call.room_nights,
                                                   hotel_call.extra_nights)]
    /\ UNCHANGED <<hotel_call, notHotelVars>>

HotelNext ==
    \/ ComputeRoomNights
    \/ CalculateHotelCost

-----------------------------------------------------------------------------
(* Claims about compute_room_nights and calculate_hotel_cost (SpecHotel) *)

RoomNightsReturned ==
    /\ hotel_call # None
    /\ hotel_call.fn = "compute_room_nights"
    /\ hotel_ret # None

ListsNonEmpty ==
    hotel_call.arrival_times # <<>> /\ hotel_call.departure_times # <<>>

\* the quantities the claims speak of, from the arguments of the call
ArgArrival(i) == hotel_call.arrival_times[i].date
ArgDeparture(i) == hotel_call.departure_times[i].date
ArgGuests == 1 .. Len(hotel_call.arrival_times)
ArgEventStart ==
    CHOOSE d \in {ArgArrival(i) : i \in ArgGuests} :
        \A i \in ArgGuests : d <= ArgArrival(i)
ArgEventEnd == ArgEventStart + hotel_call.duration_days
Occupants(d) ==
    Cardinality({ i \in ArgGuests :
                    /\ Max(ArgArrival(i), ArgEventStart) <= d
                    /\ d < Min(ArgDeparture(i), ArgEventEnd) })

\* C7: for non-empty lists, the entry of required_rooms_per_night for night d
\* of the event window [earliest arrival, earliest arrival + duration_days) is
\* the number of attendees with max(arrival, start) <= d < min(departure, end);
\* peak_occupancy is the maximum entry and nights_with_peak the number of
\* entries equal to it; three attendees arriving day 1 and leaving day 4 with
\* duration 3 give peak_occupancy 3
C7_RoomsPerNight ==
    (RoomNightsReturned /\ ListsNonEmpty) =>
        LET rooms == hotel_ret.required_rooms_per_night
            nights == 1 .. hotel_call.duration_days
        IN  /\ \A n \in nights :
                  /\ n \in DOMAIN rooms
                  /\ rooms[n] = Occupants(ArgEventStart + n - 1)
            /\ \A n \in DOMAIN rooms : hotel_ret.peak_occupancy >= rooms[n]
            /\ rooms # <<>> =>
                  \E n \in DOMAIN rooms : hotel_ret.peak_occupancy = rooms[n]
            /\ hotel_ret.nights_with_peak =
                  Cardinality({ n \in DOMAIN rooms :
                                  rooms[n] = hotel_ret.peak_occupancy })
            /\ ( /\ Len(hotel_call.arrival_times) = 3
                 /\ \A i \in ArgGuests : ArgArrival(i) = 1 /\ ArgDeparture(i) = 4
                 /\ hotel_call.duration_days = 3 )
               => hotel_ret.peak_occupancy = 3

\* the test's case: three attendees, day 1 to day 4, duration 3, peak 3
C7_Witness ==
    /\ RoomNightsReturned
    /\ Len(hotel_call.arrival_times) = 3
    /\ Len(hotel_call.departure_times) = 3
    /\ \A i \in 1..3 : ArgArrival(i) = 1 /\ ArgDeparture(i) = 4
    /\ hotel_call.duration_days = 3
    /\ hotel_ret.peak_occupancy = 3
    /\ hotel_ret.required_rooms_per_night = <<3, 3, 3>>

\* C8 as stated: for every input, empty lists included, the length of
\* required_rooms_per_night equals duration_days
C8_LengthIsDurationAlways ==
    RoomNightsReturned =>
        Len(hotel_ret.required_rooms_per_night) = hotel_call.duration_days

\* C8 amended: with non-empty arrival and departure lists the length of
\* required_rooms_per_night equals duration_days; when either list is empty
\* the sequence is empty whatever duration_days is
C8_LengthIsDuration ==
    RoomNightsReturned =>
        Len(hotel_ret.required_rooms_per_night) =
            IF ListsNonEmpty THEN hotel_call.duration_days ELSE 0

C8_Witness ==
    /\ RoomNightsReturned
    /\ ListsNonEmpty
    /\ hotel_call.duration_days = 3
    /\ Len(hotel_call.arrival_times) = 2
    /\ Len(hotel_ret.required_rooms_per_night) = 3

\* C9: shoulder_nights is the sum over attendees of the days the arrival
\* precedes event_start plus the days the departure exceeds event_end;
\* total_room_nights = sum(required_rooms_per_night) + shoulder_nights; when
\* one attendee arrives a day before the others and another departs a day
\* after the event end, shoulder_nights > 0
C9_ShoulderNights ==
    (RoomNightsReturned /\ ListsNonEmpty) =>
        LET early == [i \in ArgGuests |-> Max(ArgEventStart - ArgArrival(i), 0)]
            late == [i \in ArgGuests |-> Max(ArgDeparture(i) - ArgEventEnd, 0)]
        IN  /\ hotel_ret.shoulder_nights = SeqSum(early) + SeqSum(late)
            /\ hotel_ret.total_room_nights =
                  SeqSum(hotel_ret.required_rooms_per_night)
                  + hotel_ret.shoulder_nights
            /\ ( /\ \E i \in ArgGuests :
                      \A j \in ArgGuests \ {i} : ArgArrival(i) = ArgArrival(j) - 1
                 /\ \E j \in ArgGuests : ArgDeparture(j) = ArgEventEnd + 1 )
               => hotel_ret.shoulder_nights > 0

\* the spread test: arrivals day 0, 1, 1, departures day 4, 4, 5, duration 3
C9_Witness ==
    /\ RoomNightsReturned
    /\ hotel_call.duration_days = 3
    /\ DatesOf(hotel_call.arrival_times) = <<0, 1, 1>>
    /\ DatesOf(hotel_call.departure_times) = <<4, 4, 5>>
    /\ hotel_ret.shoulder_nights = 4
    /\ hotel_ret.total_room_nights = 11

\* C10: calculate_hotel_cost returns (room_nights + extra_nights) * rate, rate
\* being the hotel's corporate rate, or 150 when the hotel has none
C10_HotelCost ==
    ( /\ hotel_call # None
      /\ hotel_call.fn = "calculate_hotel_cost"
      /\ hotel_ret # None ) =>
        hotel_ret.cost =
            (hotel_call.room_nights + hotel_call.extra_nights)
            * (IF hotel_call.hotel.corporate_rate \in {NoRate, 0}
               THEN 150 * FP ELSE hotel_call.hotel.corporate_rate)

-----------------------------------------------------------------------------
(* Calls of the two scoring functions on drawn arguments *)

\* a rate given in tenths
Tenths(n) == (n * FP) \div 10

BaselineCalls ==
    { [fn |-> "_calculate_score", total_cost |-> c * FP,
       arrival_spread_minutes |-> s * FP, avg_travel_time_minutes |-> t * FP,
       connections_rate |-> Tenths(r)] :
      c \in {0, 10000, 15000}, s \in {0, 120, 300}, t \in {0, 600, 800},
      r \in {0, 3, 8} }

ExtendedCalls ==
    { [fn |-> "_calculate_score_v2", flight_cost |-> f * FP, hotel_cost |-> h * FP,
       transfer_cost |-> x * FP, arrival_spread_minutes |-> s * FP,
       avg_travel_time_minutes |-> t * FP, connections_rate |-> Tenths(r),
       late_arrival_risk |-> Tenths(l), operational_complexity_score |-> o * FP] :
      f \in {0, 10000}, h \in {5000, 7000}, x \in {0, 1000}, s \in {0, 120},
      t \in {0, 600}, r \in {0, 3}, l \in {1, 2, 8}, o \in {0, 50} }

ScoreOf(call) ==
    IF call.fn = "_calculate_score"
    THEN _calculate_score(call.total_cost, call.arrival_spread_minutes,
                          call.avg_travel_time_minutes, call.connections_rate)
    ELSE _calculate_score_v2(call.flight_cost, call.hotel_cost, call.transfer_cost,
                             call.arrival_spread_minutes,
                             call.avg_travel_time_minutes, call.connections_rate,
                             call.late_arrival_risk,
                             call.operational_complexity_score)

InitScore ==
    /\ score_call \in BaselineCalls \cup ExtendedCalls
    /\ score_ret = None
    /\ event = NoEvent
    /\ attendees = <<>>
    /\ attendee_count = 0
    /\ hotels = <<>>
    /\ transfer_options = <<>>
    /\ pc = "off"
    /\ date_windows = <<>>
    /\ loc_i = 1
    /\ win_j = 1
    /\ results = <<>>
    /\ sim_error = None
    /\ response = None
    /\ hotel_call = None
    /\ hotel_ret = None
    /\ in_memory_cache = <<>>
    /\ price_cache = {}
    /\ first_served = {}
    /\ last_call = None
    /\ pricing_calls = 0
    /\ transfer_call = None
    /\ transfer_ret = None
    /\ whatif_call = None
    /\ whatif_ret = None
    /\ duffel_cache = <<>>
    /\ duffel_calls = <<>>
    /\ duffel_log = <<>>

CalculateScore ==
    /\ score_call # None
    /\ score_call.fn = "_calculate_score"
    /\ score_ret = None
    /\ score_ret' = [score |-> ScoreOf(score_call)]
    /\ UNCHANGED <<score_call, notScoreVars>>

CalculateScoreV2 ==
    /\ score_call # None
    /\ score_call.fn = "_calculate_score_v2"
    /\ score_ret = None
    /\ score_ret' = [score |-> ScoreOf(score_call)]
    /\ UNCHANGED <<score_call, notScoreVars>>

ScoreNext ==
    \/ CalculateScore
    \/ CalculateScoreV2

-----------------------------------------------------------------------------
(* Claims about the scoring functions (SpecScore) *)

ScoreReturned == score_call # None /\ score_ret # None

BaselineArgs == {"total_cost", "arrival_spread_minutes", "avg_travel_time_minutes",
                 "connections_rate"}
ExtendedArgs == {"flight_cost", "hotel_cost", "transfer_cost",
                 "arrival_spread_minutes", "avg_travel_time_minutes",
                 "connections_rate", "late_arrival_risk",
                 "operational_complexity_score"}
ArgsOf(call) == IF call.fn = "_calculate_score" THEN BaselineArgs ELSE ExtendedArgs

\* other is call with argument a raised and nothing else changed
RaisesOnly(call, other, a) ==
    /\ other.fn = call.fn
    /\ other[a] > call[a]
    /\ \A b \in ArgsOf(call) \ {a} : other[b] = call[b]

\* C6: the baseline score is cost*1.0 + spread*5 + travel*2 + conn_rate*500 and
\* (10000, 120, 600, 0.3) gives 11950; the extended score adds hotel*0.8 +
\* transfer*0.5 + late_risk*200 + complexity*300 and (10000, 5000, 1000, 120,
\* 600, 0.3, 0.2, 50) gives 31490; hotel_cost + 2000 raises it by exactly 1600
\* and late_arrival_risk 0.1 -> 0.8 by exactly 140; each score is strictly
\* increasing in every argument, the others fixed
C6_WeightedSums ==
    ScoreReturned =>
        LET c == score_call
            S == score_ret.score
        IN  /\ c.fn = "_calculate_score" =>
                  /\ 10 * S = 10 * c.total_cost + 50 * c.arrival_spread_minutes
                              + 20 * c.avg_travel_time_minutes
                              + 5000 * c.connections_rate
                  /\ c = [fn |-> "_calculate_score", total_cost |-> 10000 * FP,
                          arrival_spread_minutes |-> 120 * FP,
                          avg_travel_time_minutes |-> 600 * FP,
                          connections_rate |-> Tenths(3)]
                     => S = 11950 * FP
            /\ c.fn = "_calculate_score_v2" =>
                  /\ 10 * S = 10 * c.flight_cost + 8 * c.hotel_cost
                              + 5 * c.transfer_cost
                              + 50 * c.arrival_spread_minutes
                              + 20 * c.avg_travel_time_minutes
                              + 5000 * c.connections_rate
                              + 2000 * c.late_arrival_risk
                              + 3000 * c.operational_complexity_score
                  /\ c = [fn |-> "_calculate_score_v2", flight_cost |-> 10000 * FP,
                          hotel_cost |-> 5000 * FP, transfer_cost |-> 1000 * FP,
                          arrival_spread_minutes |-> 120 * FP,
                          avg_travel_time_minutes |-> 600 * FP,
                          connections_rate |-> Tenths(3),
                          late_arrival_risk |-> Tenths(2),
                          operational_complexity_score |-> 50 * FP]
                     => S = 31490 * FP
                  /\ ScoreOf([c EXCEPT !.hotel_cost = @ + 2000 * FP]) - S = 1600 * FP
                  /\ c.late_arrival_risk = Tenths(1) =>
                        ScoreOf([c EXCEPT !.late_arrival_risk = Tenths(8)]) - S
                            = 140 * FP
            /\ \A other \in BaselineCalls \cup ExtendedCalls :
                  \A a \in ArgsOf(c) :
                      RaisesOnly(c, other, a) => ScoreOf(other) > S

\* the extended example has been scored
C6_Witness ==
    /\ ScoreReturned
    /\ score_call.fn = "_calculate_score_v2"
    /\ score_call.flight_cost = 10000 * FP
    /\ score_call.hotel_cost = 5000 * FP
    /\ score_call.transfer_cost = 1000 * FP
    /\ score_call.arrival_spread_minutes = 120 * FP
    /\ score_call.avg_travel_time_minutes = 600 * FP
    /\ score_call.connections_rate = Tenths(3)
    /\ score_call.late_arrival_risk = Tenths(2)
    /\ score_call.operational_complexity_score = 50 * FP
    /\ score_ret.score = 31490 * FP

-----------------------------------------------------------------------------
(* Specifications *)

-----------------------------------------------------------------------------
(* Calls of select_optimal_hotel on a drawn hotels table *)

\* airport and approval of a row: the two filters of the query
Listings ==
    { [airport_code |-> "LIS", approved |-> TRUE],
      [airport_code |-> "LIS", approved |-> FALSE],
      [airport_code |-> "MUC", approved |-> TRUE] }

HotelCapacities == {NoValue, 2, 4}
HotelRates == {NoRate, 0, 100 * FP, 200 * FP}
HotelDistances == {NoValue, 1 * FP}

HotelRow(i, listing, rate, distance, capacity) ==
    [id |-> i, airport_code |-> listing.airport_code, approved |-> listing.approved,
     corporate_rate |-> rate, distance_to_venue_km |-> distance, capacity |-> capacity]

HotelTables ==
    UNION { { [i \in 1..n |-> HotelRow(i, l[i], r[i], d[i], c[i])] :
                l \in [1..n -> Listings], r \in [1..n -> HotelRates],
                d \in [1..n -> HotelDistances], c \in [1..n -> HotelCapacities] } :
            n \in 0 .. MaxHotels }

\* n attendees staying the three event nights: peak_occupancy n
FullStay(n) ==
    compute_room_nights([i \in 1..n |-> DateTime(0, Time(12, 0))],
                        [i \in 1..n |-> DateTime(3, Time(10, 0))], 3)

\* n attendees who leave one day after the three event nights: n shoulder
\* nights
ExtendedStay(n) ==
    compute_room_nights([i \in 1..n |-> DateTime(0, Time(12, 0))],
                        [i \in 1..n |-> DateTime(4, Time(10, 0))], 3)

SelectCalls ==
    { [fn |-> "select_optimal_hotel", airport_code |-> "LIS", num_attendees |-> n,
       room_nights |-> IF late THEN ExtendedStay(n) ELSE FullStay(n),
       approved_only |-> a] :
        n \in {1, 3}, a \in BOOLEAN, late \in BOOLEAN }

InitSelect ==
    /\ hotels \in HotelTables
    /\ hotel_call \in SelectCalls
    /\ hotel_ret = None
    /\ event = NoEvent
    /\ attendees = <<>>
    /\ attendee_count = 0
    /\ transfer_options = <<>>
    /\ pc = "off"
    /\ date_windows = <<>>
    /\ loc_i = 1
    /\ win_j = 1
    /\ results = <<>>
    /\ sim_error = None
    /\ response = None
    /\ score_call = None
    /\ score_ret = None
    /\ in_memory_cache = <<>>
    /\ price_cache = {}
    /\ first_served = {}
    /\ last_call = None
    /\ pricing_calls = 0
    /\ transfer_call = None
    /\ transfer_ret = None
    /\ whatif_call = None
    /\ whatif_ret = None
    /\ duffel_cache = <<>>
    /\ duffel_calls = <<>>
    /\ duffel_log = <<>>

SelectOptimalHotel ==
    /\ hotel_call # None
    /\ hotel_call.fn = "select_optimal_hotel"
    /\ hotel_ret = None
    /\ hotel_ret' = [assignment |->
                        select_optimal_hotel(hotel_call.airport_code,
                                             hotel_call.num_attendees,
                                             hotel_call.room_nights,
                                             hotel_call.approved_only, hotels)]
    /\ UNCHANGED <<hotel_call, notHotelVars>>

SelectNext == SelectOptimalHotel

SelectReturned == hotel_call # None /\ hotel_ret # None

ArgPeak == hotel_call.room_nights.peak_occupancy

\* the rows the query of the call returns, by position in the table
Candidates ==
    { i \in DOMAIN hotels :
        /\ hotels[i].airport_code = hotel_call.airport_code
        /\ hotel_call.approved_only => hotels[i].approved }

\* rows whose capacity is at least the peak occupancy
BigEnough == { i \in Candidates : hotels[i].capacity # NoValue
                                  /\ hotels[i].capacity >= ArgPeak }

\* C11: select_optimal_hotel never returns a hotel whose capacity is not at
\* least peak_occupancy, and returns None exactly when no candidate hotel of
\* the airport (approved ones only when approved_only) has capacity >=
\* peak_occupancy.
C11_CapacityFilter ==
    SelectReturned =>
        /\ hotel_ret.assignment # None => hotel_ret.assignment.hotel_id \in BigEnough
        /\ hotel_ret.assignment = None <=> BigEnough = {}

\* rows the capacity check of the code lets through, and the weighted score
\* the claim gives a row (a missing distance or capacity adds nothing)
PassFilter ==
    { i \in Candidates : hotels[i].capacity = NoValue \/ hotels[i].capacity >= ArgPeak }

ClaimedScore(i) ==
    (IF hotels[i].corporate_rate = NoRate THEN 10000 * FP
     ELSE hotels[i].corporate_rate * 100)
    + (IF hotels[i].distance_to_venue_km = NoValue THEN 0
       ELSE hotels[i].distance_to_venue_km * 10)
    + (IF hotels[i].capacity = NoValue THEN 0
       ELSE Abs(hotels[i].capacity - ArgPeak) * 5 * FP)

\* C12: among the candidates that pass the capacity filter the hotel of
\* minimum weighted score rate*100 + distance_km*10 + |capacity - peak|*5 is
\* returned (10000 for the rate term when the rate is missing), the first in
\* catalog order among those of minimum score.
C12_MinimumScore ==
    (SelectReturned /\ PassFilter # {}) =>
        /\ hotel_ret.assignment # None
        /\ LET best == hotel_ret.assignment.hotel_id
           IN  /\ best \in PassFilter
               /\ \A i \in PassFilter : ClaimedScore(best) <= ClaimedScore(i)
               /\ \A i \in PassFilter :
                     ClaimedScore(i) = ClaimedScore(best) => best <= i

\* C24: the HotelAssignment returned by select_optimal_hotel has total_cost =
\* room_night_analysis.total_room_nights * rate, where rate is the chosen
\* hotel's corporate rate, or the fixed fallback rate when it has none;
\* shoulder nights, already part of total_room_nights, are charged once.
C24_AssignmentCost ==
    (SelectReturned /\ hotel_ret.assignment # None) =>
        LET chosen == hotels[hotel_ret.assignment.hotel_id]
            rate == IF chosen.corporate_rate = NoRate THEN DefaultRate * FP
                    ELSE chosen.corporate_rate
        IN  hotel_ret.assignment.total_cost
            = hotel_ret.assignment.room_night_analysis.total_room_nights * rate

\* C25: a hotel without a published rate is deprioritised but not excluded:
\* it is returned when it is the only candidate that passes the capacity
\* filter, and it is never preferred over a capacity-passing candidate that
\* has a published rate and the same distance and capacity.
C25_MissingRateDeprioritised ==
    SelectReturned =>
        /\ \A i \in PassFilter :
              (PassFilter = {i} /\ hotels[i].corporate_rate = NoRate) =>
                  /\ hotel_ret.assignment # None
                  /\ hotel_ret.assignment.hotel_id = i
        /\ (/\ hotel_ret.assignment # None
            /\ hotels[hotel_ret.assignment.hotel_id].corporate_rate = NoRate) =>
              ~ \E i \in PassFilter :
                    /\ hotels[i].corporate_rate # NoRate
                    /\ hotels[i].distance_to_venue_km
                       = hotels[hotel_ret.assignment.hotel_id].distance_to_venue_km
                    /\ hotels[i].capacity
                       = hotels[hotel_ret.assignment.hotel_id].capacity

-----------------------------------------------------------------------------
(* Calls of compute_arrival_waves and optimize_transfers *)

\* arrivals at 10:00 plus one of these minutes
ArrivalOffsets == {0, 10, 20, 45, 50}

BaseTime == DateTime(0, Time(10, 0))

\* rows of the transfer_options table; a price may have fractions of a cent
UberRow(hotel_id) ==
    [airport_code |-> "LIS", hotel_id |-> hotel_id, mode |-> "uber", capacity |-> 1,
     cost_per_trip |-> 30 * FP + 20]

VanRow(hotel_id, capacity) ==
    [airport_code |-> "LIS", hotel_id |-> hotel_id, mode |-> "van",
     capacity |-> capacity, cost_per_trip |-> 80 * FP]

OptionTables ==
    { <<>>,
      <<UberRow(2), UberRow(1), VanRow(1, 4)>>,
      <<VanRow(1, 3)>>,
      <<UberRow(1)>> }

InitTransfer ==
    /\ \E n \in 0 .. MaxArrivals :
          \E off \in [1..n -> ArrivalOffsets], short \in 0 .. 1 :
              /\ short = 1 => n \in {1, 2}
              /\ transfer_call =
                    [arrival_times |-> [i \in 1..n |-> AddMinutes(BaseTime, off[i])],
                     attendee_ids |-> [i \in 1 .. n - short |-> i],
                     airport_code |-> "LIS", hotel_id |-> 1]
    /\ transfer_options \in OptionTables
    /\ transfer_ret = None
    /\ whatif_call = None
    /\ whatif_ret = None
    /\ duffel_cache = <<>>
    /\ duffel_calls = <<>>
    /\ duffel_log = <<>>
    /\ event = NoEvent
    /\ attendees = <<>>
    /\ attendee_count = 0
    /\ hotels = <<>>
    /\ pc = "off"
    /\ date_windows = <<>>
    /\ loc_i = 1
    /\ win_j = 1
    /\ results = <<>>
    /\ sim_error = None
    /\ response = None
    /\ hotel_call = None
    /\ hotel_ret = None
    /\ score_call = None
    /\ score_ret = None
    /\ in_memory_cache = <<>>
    /\ price_cache = {}
    /\ first_served = {}
    /\ last_call = None
    /\ pricing_calls = 0

\* transfer.py 16-82 with the default window
ComputeArrivalWaves ==
    /\ transfer_call # None
    /\ transfer_ret = None
    /\ transfer_ret' =
          LET out == compute_arrival_waves(transfer_call.arrival_times,
                                           transfer_call.attendee_ids,
                                           WAVE_WINDOW_MINUTES)
          IN  [stage |-> IF out.raised THEN "raised" ELSE "waves",
               waves |-> out.waves, plan |-> None]
    /\ UNCHANGED <<transfer_call, transfer_options, notTransferVars>>

\* transfer.py 84-182 on the waves just computed
OptimizeTransfers ==
    /\ transfer_ret # None
    /\ transfer_ret.stage = "waves"
    /\ transfer_ret' =
          [transfer_ret EXCEPT
              !.stage = "plan",
              !.plan = optimize_transfers(transfer_ret.waves, transfer_call.airport_code,
                                          transfer_call.hotel_id, transfer_options)]
    /\ UNCHANGED <<transfer_call, transfer_options, notTransferVars>>

TransferNext ==
    \/ ComputeArrivalWaves
    \/ OptimizeTransfers

-----------------------------------------------------------------------------
(* Missing hotel or transfer allocations in simulate_option_v2 *)

ViaSimulateOptionV2 == attendee_count > 0 /\ (has_hotels \/ has_transfers)

\* C16: in simulate_option_v2 a missing allocation never aborts the option and
\* is never fabricated: optimize_transfers gives no plan when the table has
\* no transfer option for the airport/hotel pair, no plan is made without a
\* hotel, a missing hotel gives hotel_cost = 0 and a null hotel_assignment,
\* and a missing plan gives transfer_cost = 0, operational_complexity_score =
\* 0 and a null transfer_plan; every option still yields its result.
C16_MissingAllocation ==
    ViaSimulateOptionV2 =>
        /\ \A k \in DOMAIN results :
              LET r == results[k] IN
              /\ r.hotel_assignment = None =>
                    /\ r.hotel_cost = 0
                    /\ r.extra_nights_count = 0
                    /\ r.transfer_plan = None
              /\ r.hotel_assignment # None =>
                    /\ has_hotels
                    /\ \E h \in DOMAIN hotels :
                          /\ hotels[h].id = r.hotel_assignment.hotel_id
                          /\ hotels[h].airport_code = r.location
                    /\ QueryTransferOptions(transfer_options, r.location,
                                            r.hotel_assignment.hotel_id) = <<>>
                          => r.transfer_plan = None
              /\ r.transfer_plan = None =>
                    /\ r.transfer_cost = 0
                    /\ r.operational_complexity_score = 0
              /\ r.transfer_plan # None =>
                    /\ has_transfers
                    /\ r.transfer_plan.hotel_id = r.hotel_assignment.hotel_id
                    /\ QueryTransferOptions(transfer_options, r.location,
                                            r.transfer_plan.hotel_id) # <<>>
        /\ (pc = "done" /\ sim_error = None /\ OptionCount > 0) =>
              /\ response.status = 200
              /\ Len(results) = OptionCount

\* one answered request holds an option without a hotel and an option with a
\* hotel for which the table has no transfer option
C16_Witness ==
    /\ ViaSimulateOptionV2
    /\ pc = "done"
    /\ sim_error = None
    /\ has_transfers
    /\ \E k \in DOMAIN results : results[k].hotel_assignment = None
    /\ \E k \in DOMAIN results :
          /\ results[k].hotel_assignment # None
          /\ results[k].transfer_plan = None

\* C29: in simulate_option_v2 with hotels enabled, at least one attendee and
\* duration_days >= 1, all arrivals are dated window.start and all departures
\* window.start + duration_days, so the room-night analysis given to the
\* hotel selection has duration_days entries in required_rooms_per_night, all
\* equal to the number of attendees, peak_occupancy = number of attendees and
\* shoulder_nights = 0, and extra_nights_count is 0.
C29_NoShoulderNightsInSimulation ==
    (ViaSimulateOptionV2 /\ has_hotels /\ event.duration_days >= 1) =>
        \A k \in DOMAIN results :
            /\ results[k].extra_nights_count = 0
            /\ results[k].hotel_assignment # None =>
                  LET analysis == results[k].hotel_assignment.room_night_analysis
                      n == Len(results[k].attendee_itineraries)
                  IN  /\ n = Len(attendees)
                      /\ Len(analysis.required_rooms_per_night) = event.duration_days
                      /\ \A d \in DOMAIN analysis.required_rooms_per_night :
                            analysis.required_rooms_per_night[d] = n
                      /\ analysis.peak_occupancy = n
                      /\ analysis.shoulder_nights = 0
                      /\ results[k].hotel_assignment.extra_nights = 0

\* an option for two attendees whose flights arrive at different times has a
\* hotel assigned
C29_Witness ==
    /\ ViaSimulateOptionV2
    /\ has_hotels
    /\ \E k \in DOMAIN results :
          /\ results[k].hotel_assignment # None
          /\ Len(results[k].attendee_itineraries) = 2
          /\ results[k].attendee_itineraries[1].itinerary.arrive_time
             # results[k].attendee_itineraries[2].itinerary.arrive_time
          /\ results[k].hotel_assignment.room_night_analysis.peak_occupancy = 2

-----------------------------------------------------------------------------
(* Claims about the arrival waves and the transfer plan *)

WavesReturned == transfer_ret # None /\ transfer_ret.stage \in {"waves", "plan"}

PlanReturned ==
    transfer_ret # None /\ transfer_ret.stage = "plan" /\ transfer_ret.plan # None

\* arrival minute of the attendee with this id (ids are list positions)
ArrivalOf(id) == Timestamp(transfer_call.arrival_times[id])

RECURSIVE WaveMembers(_)
WaveMembers(waves) ==
    IF waves = <<>> THEN <<>> ELSE waves[1].attendee_ids \o WaveMembers(Tail(waves))

\* the arrivals of the call, as minutes after the base time, smallest first
OffsetsAre(offsets) ==
    /\ Len(transfer_call.arrival_times) = Len(offsets)
    /\ \A o \in ArrivalOffsets :
          Cardinality({ i \in DOMAIN offsets : offsets[i] = o })
          = Cardinality({ i \in DOMAIN transfer_call.arrival_times :
                            ArrivalOf(i) = Timestamp(BaseTime) + o })

\* C13: compute_arrival_waves takes the arrivals in ascending time order with
\* a fixed window: a wave opened at arrival t has wave_start = t and wave_end =
\* t + window, every member arrives within [wave_start, wave_end], and each
\* later wave starts at the first arrival strictly after the previous
\* wave_end; arrivals at minutes 0, 10, 20, 45, 50 with a 30-minute window
\* give two waves of sizes 3 and 2.
C13_FixedWindowWaves ==
    (WavesReturned
     /\ Len(transfer_call.arrival_times) = Len(transfer_call.attendee_ids)) =>
        LET waves == transfer_ret.waves
            order == WaveMembers(waves)
            n == Len(transfer_call.arrival_times)
        IN  /\ Len(order) = n
            /\ { order[k] : k \in 1..n } = 1..n
            /\ \A k \in 1 .. n - 1 : ArrivalOf(order[k]) <= ArrivalOf(order[k + 1])
            /\ \A w \in DOMAIN waves :
                  /\ waves[w].attendee_ids # <<>>
                  /\ waves[w].attendee_count = Len(waves[w].attendee_ids)
                  /\ Timestamp(waves[w].wave_start) = ArrivalOf(waves[w].attendee_ids[1])
                  /\ Timestamp(waves[w].wave_end)
                     = Timestamp(waves[w].wave_start) + WAVE_WINDOW_MINUTES
                  /\ \A i \in DOMAIN waves[w].attendee_ids :
                        /\ Timestamp(waves[w].wave_start) <= ArrivalOf(waves[w].attendee_ids[i])
                        /\ ArrivalOf(waves[w].attendee_ids[i]) <= Timestamp(waves[w].wave_end)
                  /\ w > 1 => Timestamp(waves[w].wave_start)
                                 > Timestamp(waves[w - 1].wave_end)
            /\ OffsetsAre(<<0, 10, 20, 45, 50>>) =>
                  /\ Len(waves) = 2
                  /\ waves[1].attendee_count = 3
                  /\ waves[2].attendee_count = 2

\* the five arrivals of the example, given out of order, are in two waves
C13_Witness ==
    /\ WavesReturned
    /\ OffsetsAre(<<0, 10, 20, 45, 50>>)
    /\ ArrivalOf(1) > ArrivalOf(2)
    /\ Len(transfer_ret.waves) = 2

\* C27: compute_arrival_waves partitions its input: for non-empty lists of
\* equal length every attendee id is in exactly one wave, each wave's
\* attendee_count is the length of its attendee_ids and at least 1, and the
\* counts sum to the number of arrivals; lists of different length raise the
\* ValueError and no waves are returned.
C27_WavesPartitionInput ==
    transfer_ret # None =>
        LET waves == transfer_ret.waves
            order == WaveMembers(waves)
            n == Len(transfer_call.arrival_times)
            m == Len(transfer_call.attendee_ids)
        IN  /\ (n = m /\ n > 0) =>
                  /\ transfer_ret.stage # "raised"
                  /\ \A id \in 1 .. m :
                        Cardinality({ k \in DOMAIN order : order[k] = id }) = 1
                  /\ \A w \in DOMAIN waves :
                        /\ waves[w].attendee_count = Len(waves[w].attendee_ids)
                        /\ waves[w].attendee_count >= 1
                  /\ Len(order) = n
            /\ n # m => transfer_ret.stage = "raised" /\ waves = <<>>

\* the rows of the table for the airport and hotel of the call, and the row
\* used for a mode: the first of that mode, else the first row
PlanOptions ==
    SelectSeq(transfer_options,
              LAMBDA to : to.airport_code = transfer_call.airport_code
                          /\ to.hotel_id = transfer_call.hotel_id)

OptionFor(mode) ==
    LET of_mode == SelectSeq(PlanOptions, LAMBDA to : to.mode = mode)
    IN  IF of_mode # <<>> THEN of_mode[1] ELSE PlanOptions[1]

\* C14: optimize_transfers produces one leg per wave, in wave order: a wave of
\* 3 or more attendees gets the van mode with vehicle_count = ceil(count / van
\* capacity), cost = vehicle_count * van cost_per_trip and utilization = count
\* / (vehicle_count * capacity); a smaller wave gets one individual vehicle
\* per attendee, cost = count * individual cost_per_trip and utilization 1.0;
\* every utilization lies in (0, 1].
C14_OneLegPerWave ==
    PlanReturned =>
        LET waves == transfer_ret.waves
            legs == transfer_ret.plan.legs
            van == OptionFor("van")
            uber == OptionFor("uber")
        IN  /\ Len(legs) = Len(waves)
            /\ \A i \in DOMAIN legs :
                  LET leg == legs[i]
                      count == waves[i].attendee_count
                  IN  /\ leg.wave = waves[i]
                      /\ leg.capacity_utilization > 0
                      /\ leg.capacity_utilization <= FP
                      /\ IF count >= 3
                         THEN /\ leg.mode = "van"
                              /\ leg.vehicle_count * van.capacity >= count
                              /\ (leg.vehicle_count - 1) * van.capacity < count
                              /\ leg.total_cost = leg.vehicle_count * van.cost_per_trip
                              /\ leg.capacity_utilization
                                    * (leg.vehicle_count * van.capacity) = count * FP
                         ELSE /\ leg.mode = "uber"
                              /\ leg.vehicle_count = count
                              /\ leg.total_cost = count * uber.cost_per_trip
                              /\ leg.capacity_utilization = FP

\* a plan with a van leg of two vehicles and an individual leg
C14_Witness ==
    /\ PlanReturned
    /\ \E i \in DOMAIN transfer_ret.plan.legs :
          /\ transfer_ret.plan.legs[i].mode = "van"
          /\ transfer_ret.plan.legs[i].vehicle_count = 2
    /\ \E i \in DOMAIN transfer_ret.plan.legs : transfer_ret.plan.legs[i].mode = "uber"

LegCosts == [i \in DOMAIN transfer_ret.plan.legs |-> transfer_ret.plan.legs[i].total_cost]

LegVehicles ==
    [i \in DOMAIN transfer_ret.plan.legs |-> transfer_ret.plan.legs[i].vehicle_count]

\* C15 as stated: for every TransferPlan returned, total_cost equals the sum
\* of its legs' total_cost and total_vehicles the sum of its legs'
\* vehicle_count (both 0 for an empty wave list).
C15_TotalsAreSums ==
    PlanReturned =>
        /\ transfer_ret.plan.total_cost = SeqSum(LegCosts)
        /\ transfer_ret.plan.total_vehicles = SeqSum(LegVehicles)

\* C15 amended: total_cost equals the sum of the legs' total_cost rounded to
\* two decimals, total_vehicles the sum of the legs' vehicle_count (both 0 for
\* an empty wave list).
C15_TotalsAreRoundedSums ==
    PlanReturned =>
        /\ transfer_ret.plan.total_cost = Round2(SeqSum(LegCosts))
        /\ transfer_ret.plan.total_vehicles = SeqSum(LegVehicles)
        /\ transfer_ret.waves = <<>> =>
              transfer_ret.plan.total_cost = 0 /\ transfer_ret.plan.total_vehicles = 0

\* a plan of two legs whose vehicles outnumber the legs
C15_Witness ==
    /\ PlanReturned
    /\ Len(transfer_ret.plan.legs) = 2
    /\ transfer_ret.plan.total_vehicles > 2
    /\ transfer_ret.plan.total_cost > 0

-----------------------------------------------------------------------------
(* WhatIfExplorationService (services/whatif.py) *)

\* whatif.py 32-39
NEARBY_AIRPORTS(location) ==
    CASE location = "LIS" -> <<"OPO", "FAO">>
      [] location = "MUC" -> <<"FRA", "STR">>
      [] location = "LHR" -> <<"LGW", "STN">>
      [] location = "CDG" -> <<"ORY">>
      [] location = "JFK" -> <<"LGA", "EWR">>
      [] location = "LAX" -> <<"SNA", "BUR">>
      [] OTHER -> <<>>

WhatIfProposal(proposal_type, description, variation_data) ==
    [proposal_type |-> proposal_type, description |-> description,
     variation_data |-> variation_data]

DateShiftProposal(shift_days, start_date) ==
    WhatIfProposal("date_shift",
                   <<"Shift event start date by", shift_days>>,
                   [shift_days |-> shift_days, original_start |-> IsoDate(start_date)])

\* as DateShiftProposals, but only the forward shift is proposed
DateShiftProposalsForwardOnly(windows) ==
    IF windows # <<>> /\ windows[1].kind = "dict"
    THEN <<DateShiftProposal(1, windows[1].start_date.v)>>
    ELSE <<>>

\* whatif.py 57-81; date.fromisoformat reads the stored string
DateShiftProposals(windows) ==
    IF windows # <<>> /\ windows[1].kind = "dict"
    THEN LET start_date == windows[1].start_date.v
         IN  <<DateShiftProposal(1, start_date), DateShiftProposal(0 - 1, start_date)>>
    ELSE <<>>

\* whatif.py 83-94: for location in event.candidate_locations[:2]
RECURSIVE NearbyProposals(_)
NearbyProposals(locations) ==
    IF locations = <<>> THEN <<>>
    ELSE LET location == locations[1]
             nearby == NEARBY_AIRPORTS(location)
             rest == NearbyProposals(Tail(locations))
         IN  IF nearby # <<>>
             THEN <<WhatIfProposal("nearby_airport",
                                   <<"Use", nearby[1], "instead of", location>>,
                                   [original |-> location, alternative |-> nearby[1]])>>
                  \o rest
             ELSE rest

\* whatif.py 96-108: for hub in major_hubs[:1]
HubProposals ==
    <<WhatIfProposal("hub_change", <<"Route through", "FRA", "hub">>, [hub |-> "FRA"])>>

\* whatif.py 41-110
generate_variations(ev, baseline_result) ==
    LET locations == ev.candidate_locations
        proposals ==
            DateShiftProposals(ev.candidate_date_windows)
            \o NearbyProposals(SubSeq(locations, 1, Min(2, Len(locations))))
        with_hub == IF Len(proposals) < 5 THEN proposals \o HubProposals
                    ELSE proposals
    IN  SubSeq(with_hub, 1, Min(5, Len(with_hub)))

\* whatif.py 180-187: the dict windows, shifted; date.fromisoformat raises for
\* a field that is no string
RECURSIVE ShiftWindows(_, _)
ShiftWindows(windows, shift_days) ==
    IF windows = <<>> THEN [raised |-> FALSE, windows |-> <<>>]
    ELSE LET window == windows[1]
             rest == ShiftWindows(Tail(windows), shift_days)
         IN  IF window.kind # "dict" THEN rest
             ELSE IF window.start_date.t # "str" \/ window.end_date.t # "str"
                  THEN [raised |-> TRUE, windows |-> <<>>]
             ELSE IF rest.raised THEN rest
             ELSE [raised |-> FALSE,
                   windows |->
                      <<[kind |-> "dict",
                         start_date |-> IsoDate(window.start_date.v + shift_days),
                         end_date |-> IsoDate(window.end_date.v + shift_days)]>>
                      \o rest.windows]

\* the id of an Event object that was given none: None, which equals no
\* event_id of the event_attendees table
NoId == 0

\* Event(...) as whatif.py 189-195 and 208-214 build it: no id is given and
\* the object is never added to the session, so its id stays None
ModifiedEvent(ev, locations, windows) ==
    [id |-> NoId, candidate_locations |-> locations,
     candidate_date_windows |-> windows, duration_days |-> ev.duration_days]

\* as _apply_proposal, but a proposal of another type raises
_apply_proposalRejectUnknown(ev, proposal) ==
    IF proposal.proposal_type = "date_shift"
    THEN LET shifted == ShiftWindows(ev.candidate_date_windows,
                                     proposal.variation_data.shift_days)
         IN  IF shifted.raised THEN [raised |-> TRUE, modified |-> None]
             ELSE [raised |-> FALSE,
                   modified |-> ModifiedEvent(ev, ev.candidate_locations,
                                              shifted.windows)]
    ELSE IF proposal.proposal_type = "nearby_airport"
    THEN IF \E i \in DOMAIN ev.candidate_locations :
               ev.candidate_locations[i] = proposal.variation_data.original
         THEN [raised |-> TRUE, modified |-> None]
         ELSE [raised |-> FALSE,
               modified |-> ModifiedEvent(ev, ev.candidate_locations,
                                          ev.candidate_date_windows)]
    ELSE [raised |-> TRUE, modified |-> None]

\* whatif.py 168-218. The comprehension of lines 203-206 reads the name alt,
\* which is bound nowhere (the alternative is in the variable alternative):
\* a NameError as soon as a location equals the original, and otherwise every
\* location is kept
_apply_proposal(ev, proposal) ==
    IF proposal.proposal_type = "date_shift"
    THEN LET shifted == ShiftWindows(ev.candidate_date_windows,
                                     proposal.variation_data.shift_days)
         IN  IF shifted.raised THEN [raised |-> TRUE, modified |-> None]
             ELSE [raised |-> FALSE,
                   modified |-> ModifiedEvent(ev, ev.candidate_locations,
                                              shifted.windows)]
    ELSE IF proposal.proposal_type = "nearby_airport"
    THEN IF \E i \in DOMAIN ev.candidate_locations :
               ev.candidate_locations[i] = proposal.variation_data.original
         THEN [raised |-> TRUE, modified |-> None]
         ELSE [raised |-> FALSE,
               modified |-> ModifiedEvent(ev, ev.candidate_locations,
                                          ev.candidate_date_windows)]
    ELSE [raised |-> FALSE, modified |-> None]

\* OptimiserService.simulate_event (optimiser.py 177-229) as one call, with a
\* pricing provider that answers every request; event_attendee_rows and
\* attendee_table are the two tables behind db
simulate_event(ev, event_attendee_rows, attendee_table) ==
    LET attendee_ids ==
            { event_attendee_rows[i].attendee_id :
                i \in { j \in DOMAIN event_attendee_rows :
                          event_attendee_rows[j].event_id = ev.id } }
        attendee_list == SelectSeq(attendee_table, LAMBDA a : a.id \in attendee_ids)
        windows == ParseDateWindows(ev.candidate_date_windows, Today)
        per_location == Len(windows)
    IN  IF attendee_list = <<>> THEN <<>>
        ELSE [k \in 1 .. Len(ev.candidate_locations) * per_location |->
                simulate_option(ev.candidate_locations[((k - 1) \div per_location) + 1],
                                windows[((k - 1) % per_location) + 1],
                                attendee_list, ev.duration_days, 0).result]

\* min(option_results, key=lambda x: x.score): the first option of least score
MinByScore(option_results) == option_results[ranked_indices(option_results)[1] + 1]

\* whatif.py 154-164
WhatIfResult(proposal, best_option, baseline_best) ==
    [proposal |-> proposal,
     delta_cost |-> Round2(best_option.total_cost - baseline_best.total_cost),
     delta_score |-> Round2(best_option.score - baseline_best.score),
     new_result |-> best_option,
     baseline_result |-> baseline_best]

\* whatif.py 145-164: what one simulated proposal adds
EvaluateStep(acc, proposal, option_results, baseline_best) ==
    IF option_results = <<>>
    THEN [acc EXCEPT !.simulations = @ + 1]
    ELSE [acc EXCEPT !.simulations = @ + 1,
                     !.results = Append(@, WhatIfResult(proposal,
                                                        MinByScore(option_results),
                                                        baseline_best))]

\* whatif.py 138-164: the loop over the proposals, from proposal k on
RECURSIVE EvaluateLoop(_, _, _, _, _, _, _)
EvaluateLoop(acc, proposals, k, ev, baseline_best, event_attendee_rows, attendee_table) ==
    IF k > Len(proposals) THEN acc
    ELSE IF _apply_proposal(ev, proposals[k]).raised
         THEN [acc EXCEPT !.raised = TRUE]
    ELSE IF _apply_proposal(ev, proposals[k]).modified = None
         THEN EvaluateLoop(acc, proposals, k + 1, ev, baseline_best,
                           event_attendee_rows, attendee_table)
    ELSE EvaluateLoop(
            EvaluateStep(acc, proposals[k],
                         simulate_event(_apply_proposal(ev, proposals[k]).modified,
                                        event_attendee_rows, attendee_table),
                         baseline_best),
            proposals, k + 1, ev, baseline_best, event_attendee_rows, attendee_table)

\* evaluate_proposals (whatif.py 112-166); raised = an exception left the
\* function (the IndexError of line 136 for a baseline without that result,
\* or what _apply_proposal raised); simulations counts the simulate_event calls
evaluate_proposals(proposals, ev, baseline_result, event_attendee_rows, attendee_table) ==
    LET baseline_best_idx ==
            IF baseline_result.ranked_options # <<>>
            THEN baseline_result.ranked_options[1] ELSE 0
    IN  IF baseline_best_idx + 1 > Len(baseline_result.results)
        THEN [raised |-> TRUE, results |-> <<>>, simulations |-> 0]
        ELSE EvaluateLoop([raised |-> FALSE, results |-> <<>>, simulations |-> 0],
                          proposals, 1, ev,
                          baseline_result.results[baseline_best_idx + 1],
                          event_attendee_rows, attendee_table)

\* bound of the explored events' candidate_locations
MaxWhatIfLocations == 3

WhatIfLocations == {"LIS", "MUC", "ZRH"}

\* entries of candidate_date_windows as create_event stores them
\* (api/events.py 26-32): dicts of two ISO strings
WhatIfWindows ==
    { [kind |-> "dict", start_date |-> IsoDate(1), end_date |-> IsoDate(4)],
      [kind |-> "dict", start_date |-> IsoDate(2), end_date |-> IsoDate(5)] }

\* the id of the stored event, and its rows of the event_attendees table
StoredEventId == 1

EventAttendeeRows ==
    [i \in DOMAIN attendees |-> [event_id |-> StoredEventId, attendee_id |-> attendees[i].id]]

\* the result of the event's simulation, as a SimulationResult
SimulatedBaseline(ev, event_attendee_rows, attendee_table) ==
    LET option_results == simulate_event(ev, event_attendee_rows, attendee_table)
    IN  [results |-> option_results, ranked_options |-> ranked_indices(option_results)]

\* the baseline run_whatif_exploration builds (api/whatif.py 46-52): no results
StubBaseline == [results |-> <<>>, ranked_options |-> <<0>>]

\* the same when the stored results column is empty
EmptyStubBaseline == [results |-> <<>>, ranked_options |-> <<>>]

InitWhatIf ==
    /\ \E locs \in SeqsUpTo(WhatIfLocations, MaxWhatIfLocations),
          wins \in SeqsUpTo(WhatIfWindows, MaxWindows) :
            event = [id |-> StoredEventId, candidate_locations |-> locs,
                     candidate_date_windows |-> wins,
                     duration_days |-> EventDuration]
    /\ \E n \in 0..MaxAttendees :
          /\ attendees = [i \in 1..n |-> AttendeeRow(i)]
          /\ attendee_count = n
    /\ \E caller \in {"trigger", "trigger_no_results", "service"} :
          whatif_call =
             [via_trigger |-> caller # "service",
              baseline_result |->
                IF caller = "trigger" THEN StubBaseline
                ELSE IF caller = "trigger_no_results" THEN EmptyStubBaseline
                ELSE SimulatedBaseline(event, EventAttendeeRows, attendees)]
    /\ whatif_ret = None
    /\ duffel_cache = <<>>
    /\ duffel_calls = <<>>
    /\ duffel_log = <<>>
    /\ hotels = <<>>
    /\ transfer_options = <<>>
    /\ pc = "off"
    /\ date_windows = <<>>
    /\ loc_i = 1
    /\ win_j = 1
    /\ results = <<>>
    /\ sim_error = None
    /\ response = None
    /\ hotel_call = None
    /\ hotel_ret = None
    /\ score_call = None
    /\ score_ret = None
    /\ in_memory_cache = <<>>
    /\ price_cache = {}
    /\ first_served = {}
    /\ last_call = None
    /\ pricing_calls = 0
    /\ transfer_call = None
    /\ transfer_ret = None

\* generate_variations(event, baseline_result)
GenerateVariations ==
    /\ whatif_ret = None
    /\ whatif_ret' = [stage |-> "proposals",
                      proposals |-> generate_variations(event, whatif_call.baseline_result),
                      outcome |-> None]
    /\ UNCHANGED whatif_call
    /\ UNCHANGED notWhatifVars

\* a list without its k-th element
Without(seq, k) == SubSeq(seq, 1, k - 1) \o SubSeq(seq, k + 1, Len(seq))

\* evaluate_proposals(proposals, event, baseline_result, db), for the
\* generated proposals or for all of them but one
EvaluateProposals ==
    /\ whatif_ret # None
    /\ whatif_ret.stage = "proposals"
    /\ \E drop \in 0 .. Len(whatif_ret.proposals) :
          LET proposals == IF drop = 0 THEN whatif_ret.proposals
                           ELSE Without(whatif_ret.proposals, drop)
          IN  whatif_ret' =
                 [stage |-> "evaluated",
                  proposals |-> proposals,
                  outcome |-> evaluate_proposals(proposals, event,
                                                 whatif_call.baseline_result,
                                                 EventAttendeeRows, attendees)]
    /\ UNCHANGED whatif_call
    /\ UNCHANGED notWhatifVars

WhatIfNext == GenerateVariations \/ EvaluateProposals

Generated == whatif_ret # None /\ whatif_ret.stage = "proposals"

Evaluated == whatif_ret # None /\ whatif_ret.stage = "evaluated"

OfType(proposals, proposal_type) ==
    SelectSeq(proposals, LAMBDA q : q.proposal_type = proposal_type)

\* the positions among the first two candidate locations whose airport has a
\* known alternate
KnownAlternates ==
    { i \in 1 .. Min(2, Len(event.candidate_locations)) :
        NEARBY_AIRPORTS(event.candidate_locations[i]) # <<>> }

\* C17: generate_variations returns at most 5 proposals and at least one; when
\* the event's first date window is present the list holds both a +1-day and
\* a -1-day date_shift proposal, and nearby_airport proposals are produced
\* only for the first two candidate locations that have a known alternate
\* airport.
C17_BoundedVariations ==
    Generated =>
        LET proposals == whatif_ret.proposals
            nearby == OfType(proposals, "nearby_airport")
        IN  /\ Len(proposals) >= 1
            /\ Len(proposals) <= 5
            /\ event.candidate_date_windows # <<>> =>
                  /\ \E k \in DOMAIN proposals :
                        /\ proposals[k].proposal_type = "date_shift"
                        /\ proposals[k].variation_data.shift_days = 1
                  /\ \E k \in DOMAIN proposals :
                        /\ proposals[k].proposal_type = "date_shift"
                        /\ proposals[k].variation_data.shift_days = 0 - 1
            /\ Len(nearby) = Cardinality(KnownAlternates)
            /\ \A k \in DOMAIN nearby :
                  \E i \in KnownAlternates :
                     /\ nearby[k].variation_data.original = event.candidate_locations[i]
                     /\ nearby[k].variation_data.alternative
                        = NEARBY_AIRPORTS(event.candidate_locations[i])[1]

\* three candidate locations, the second without and the third with a known
\* alternate: both date shifts, one nearby_airport and the hub proposal
C17_Witness ==
    /\ Generated
    /\ event.candidate_locations = <<"MUC", "ZRH", "LIS">>
    /\ event.candidate_date_windows # <<>>
    /\ Len(whatif_ret.proposals) = 4
    /\ Len(OfType(whatif_ret.proposals, "nearby_airport")) = 1

Supported(proposal) == proposal.proposal_type \in {"date_shift", "nearby_airport"}

\* the event a proposal asks for: the windows moved by shift_days, or the
\* original location replaced by the alternative
PerturbedEvent(proposal) ==
    IF proposal.proposal_type = "date_shift"
    THEN [event EXCEPT !.candidate_date_windows =
            [i \in DOMAIN @ |->
                [kind |-> "dict",
                 start_date |-> IsoDate(@[i].start_date.v
                                        + proposal.variation_data.shift_days),
                 end_date |-> IsoDate(@[i].end_date.v
                                      + proposal.variation_data.shift_days)]]]
    ELSE [event EXCEPT !.candidate_locations =
            [i \in DOMAIN @ |->
                IF @[i] = proposal.variation_data.original
                THEN proposal.variation_data.alternative ELSE @[i]]]

\* C18: for an event with at least one attendee, one candidate location and
\* one date window, evaluate_proposals returns exactly one WhatIfResult for
\* every date_shift and nearby_airport proposal, in proposal order: the
\* perturbed event is re-simulated over the attendees of the original event
\* and new_result is the minimum-score option of that re-simulation.
C18_OneResultPerProposal ==
    (/\ Evaluated
     /\ Len(attendees) >= 1
     /\ Len(event.candidate_locations) = 1
     /\ Len(event.candidate_date_windows) = 1
     /\ whatif_call.baseline_result.results # <<>>) =>
        LET supported == SelectSeq(whatif_ret.proposals, Supported)
            returned == whatif_ret.outcome.results
        IN  /\ ~whatif_ret.outcome.raised
            /\ Len(returned) = Len(supported)
            /\ \A k \in DOMAIN returned :
                  /\ returned[k].proposal = supported[k]
                  /\ returned[k].new_result
                     = MinByScore(simulate_event(PerturbedEvent(supported[k]),
                                                 EventAttendeeRows, attendees))

\* every call of evaluate_proposals that returns, returns the empty list
EvaluationReturnsNothing == Evaluated => whatif_ret.outcome.results = <<>>

\* C20: a proposal whose type is neither date_shift nor nearby_airport is
\* skipped by evaluate_proposals without raising and without a simulation: it
\* contributes no WhatIfResult, and the call has the outcome (results,
\* simulations run, exception or not) of the call without such proposals.
C20_UnsupportedSkipped ==
    Evaluated =>
        LET supported == SelectSeq(whatif_ret.proposals, Supported)
        IN  /\ whatif_ret.outcome
               = evaluate_proposals(supported, event, whatif_call.baseline_result,
                                    EventAttendeeRows, attendees)
            /\ \A k \in DOMAIN whatif_ret.outcome.results :
                  Supported(whatif_ret.outcome.results[k].proposal)
            /\ (supported = <<>> /\ whatif_call.baseline_result.results # <<>>) =>
                  /\ ~whatif_ret.outcome.raised
                  /\ whatif_ret.outcome.simulations = 0
                  /\ whatif_ret.outcome.results = <<>>

\* a call with the two date shifts and the hub_change proposal returned after
\* two simulations
C20_Witness ==
    /\ Evaluated
    /\ Len(whatif_ret.proposals) = 3
    /\ whatif_ret.proposals[3].proposal_type = "hub_change"
    /\ ~whatif_ret.outcome.raised
    /\ whatif_ret.outcome.simulations = 2

\* C28: every baseline SimulationResult that run_whatif_exploration builds and
\* passes to evaluate_proposals has its best-option index (ranked_options[0],
\* or 0 when ranked_options is empty) below len(baseline_result.results), so
\* the lookup of the baseline option does not fail.
C28_ValidBaseline ==
    (Evaluated /\ whatif_call.via_trigger) =>
        LET baseline_result == whatif_call.baseline_result
            baseline_best_idx ==
                IF baseline_result.ranked_options # <<>>
                THEN baseline_result.ranked_options[1] ELSE 0
        IN  /\ baseline_best_idx < Len(baseline_result.results)
            /\ ~whatif_ret.outcome.raised

-----------------------------------------------------------------------------
(* Calls of MockPricingProvider.get_best_itinerary, across provider instances *)

PricingRequests ==
    { Request(o, "LIS", 1, 4, Constraints(c, ord)) :
        o \in Origins, c \in {"economy", "business"}, ord \in {"std", "alt"} }

InitPricing ==
    /\ in_memory_cache = <<>>
    /\ price_cache = {}
    /\ first_served = [req \in PricingRequests |-> None]
    /\ last_call = None
    /\ pricing_calls = 0
    /\ transfer_call = None
    /\ transfer_ret = None
    /\ whatif_call = None
    /\ whatif_ret = None
    /\ duffel_cache = <<>>
    /\ duffel_calls = <<>>
    /\ duffel_log = <<>>
    /\ event = NoEvent
    /\ attendees = <<>>
    /\ attendee_count = 0
    /\ hotels = <<>>
    /\ transfer_options = <<>>
    /\ pc = "off"
    /\ date_windows = <<>>
    /\ loc_i = 1
    /\ win_j = 1
    /\ results = <<>>
    /\ sim_error = None
    /\ response = None
    /\ hotel_call = None
    /\ hotel_ret = None
    /\ score_call = None
    /\ score_ret = None

\* one call of get_best_itinerary on the provider settings configure
\* (volatile False), core/config.py
GetBestItinerary ==
    /\ pricing_calls < MaxPricingCalls
    /\ \E req \in PricingRequests, db_ok \in BOOLEAN :
          LET out == get_best_itinerary(req, in_memory_cache, price_cache, FALSE,
                                        MaxCacheEntries, db_ok)
          IN  /\ in_memory_cache' = out.cache
              /\ price_cache' = out.table
              /\ last_call' = [req |-> req, path |-> out.path,
                               itinerary |-> out.itinerary]
              /\ first_served' =
                    IF first_served[req] = None
                    THEN [first_served EXCEPT ![req] = out.itinerary]
                    ELSE first_served
    /\ pricing_calls' = pricing_calls + 1
    /\ UNCHANGED notPricingVars

\* OptimiserService() builds a new MockPricingProvider for each request
\* (api/events.py 131, optimiser.py 25-31): an empty in-memory cache, the
\* same price_cache table
NewProvider ==
    /\ in_memory_cache' = <<>>
    /\ UNCHANGED <<price_cache, first_served, last_call, pricing_calls>>
    /\ UNCHANGED notPricingVars

PricingNext ==
    \/ GetBestItinerary
    \/ NewProvider

\* the six fields of an itinerary the provider decides
ItineraryFields(it) ==
    <<it.price, it.airline, it.stops, it.travel_minutes, it.depart_time,
      it.arrive_time>>

\* C5: for a fixed request, every call of the deterministic provider returns
\* the same price, airline, stops, travel_minutes, depart_time and
\* arrive_time as the first call did, whatever happened in between and
\* whichever path serves it (generation, in-memory hit, SQLite hit).
C5_IdenticalFields ==
    last_call # None =>
        ItineraryFields(last_call.itinerary)
            = ItineraryFields(first_served[last_call.req])

\* the request with the same route, dates and constraints but this travel class
WithClass(req, travel_class) ==
    [req EXCEPT !.constraints.travel_class = travel_class]

\* C21: for every fixed origin, destination and dates and otherwise equal
\* constraints, the deterministic provider returns a strictly higher price for
\* travel_class business than for travel_class economy.
C21_BusinessDearer ==
    \A req \in PricingRequests :
        (/\ req.constraints.travel_class = "economy"
         /\ first_served[req] # None
         /\ first_served[WithClass(req, "business")] # None) =>
            first_served[WithClass(req, "business")].price > first_served[req].price

\* C26: after any sequence of get_best_itinerary calls on one provider, the
\* in-memory cache is bounded: over the limit (the 1000 of pricing.py) the
\* oldest entry is dropped before another is inserted, on the generation
\* path and on the SQLite-hit path alike, so it never holds more than limit
\* + 1 entries.
C26_MemoryCacheBounded == Len(in_memory_cache) <= MaxCacheEntries + 1

\* C30: two requests with equal origin, destination and dates whose
\* constraints are equal as mappings return the same itinerary whichever of
\* them is issued first (what the provider generates for one is what it
\* would generate for the other), and requests with different cache keys
\* never share a cache entry.
C30_KeyAndSeedAgree ==
    /\ (last_call # None /\ last_call.path = "generated") =>
          \A req \in PricingRequests :
              _get_cache_key(req) = _get_cache_key(last_call.req) =>
                  _generate_itinerary(req, FALSE) = last_call.itinerary
    /\ (last_call # None /\ last_call.path # "generated") =>
          /\ last_call.itinerary.origin = last_call.req.origin
          /\ last_call.itinerary.destination = last_call.req.destination
          /\ \E req \in PricingRequests :
                /\ _get_cache_key(req) = _get_cache_key(last_call.req)
                /\ last_call.itinerary.price = _generate_itinerary(req, FALSE).price
    /\ \A i, j \in DOMAIN in_memory_cache :
          in_memory_cache[i].cache_key = in_memory_cache[j].cache_key => i = j

-----------------------------------------------------------------------------
(* DuffelProvider (pricing.py 311-608): get_best_itinerary calls that run   *)
(* concurrently on one provider; a call gives way to the others only at the *)
(* await of _fetch_from_duffel_api                                          *)

\* bound of the calls on the provider
MaxDuffelCalls == 3

DuffelCallIds == 1 .. MaxDuffelCalls

DuffelRequests ==
    { Request(o, "LIS", 1, 4, Constraints("economy", "std")) : o \in Origins }

\* pricing.py 332-342: the key of the mock provider behind the prefix "duffel:"
Duffel_get_cache_key(req) == <<"duffel">> \o _get_cache_key(req)

\* an offer of the API: total_amount in dollars * FP, the number of outbound
\* segments, the carrier and the times of the outbound slice
Offer(total_amount, outbound_segments, airline, depart_hour) ==
    [total_amount |-> total_amount, outbound_segments |-> outbound_segments,
     airline |-> airline, depart_time |-> Time(depart_hour, 30),
     arrive_time |-> Time(depart_hour + 7, 45), travel_minutes |-> 435]

\* what the two HTTP exchanges of a fetch can bring: a connection error or
\* timeout, the status of the POST and of the GET, the offers
DuffelResponse(failure, post_status, get_status, offers) ==
    [failure |-> failure, post_status |-> post_status, get_status |-> get_status,
     offers |-> offers]

DuffelResponses ==
    { DuffelResponse(TRUE, 0, 0, <<>>),
      DuffelResponse(FALSE, 500, 0, <<>>),
      DuffelResponse(FALSE, 201, 429, <<>>),
      DuffelResponse(FALSE, 201, 200, <<>>),
      \* an offer whose outbound slice has no segments
      DuffelResponse(FALSE, 201, 200, <<Offer(300 * FP, 0, "BA", 9)>>),
      DuffelResponse(FALSE, 201, 200, <<Offer(310 * FP, 1, "LH", 8)>>),
      DuffelResponse(FALSE, 201, 200,
                     <<Offer(450 * FP, 1, "LH", 8), Offer(280 * FP + 30, 2, "TP", 11),
                       Offer(280 * FP + 30, 1, "IB", 7)>>) }

\* min(offers, key=lambda o: float(o.get("total_amount", "0"))): the first of
\* the cheapest offers
BestOffer(offers) ==
    offers[CHOOSE i \in DOMAIN offers :
              /\ \A j \in DOMAIN offers : offers[i].total_amount <= offers[j].total_amount
              /\ \A j \in 1 .. i - 1 : offers[j].total_amount > offers[i].total_amount]

\* _fetch_from_duffel_api (pricing.py 416-582); raised = one of its
\* exceptions (aiohttp error or timeout, ValueError for a status, for no
\* offers or for an offer without segments)
_fetch_from_duffel_api(req, api_response) ==
    IF \/ api_response.failure
       \/ api_response.post_status # 201
       \/ api_response.get_status # 200
       \/ api_response.offers = <<>>
       \/ BestOffer(api_response.offers).outbound_segments = 0
    THEN [raised |-> TRUE, itinerary |-> None]
    ELSE LET best_offer == BestOffer(api_response.offers)
         IN  [raised |-> FALSE,
              itinerary |->
                 [origin |-> req.origin, destination |-> req.destination,
                  depart_date |-> req.depart_date, return_date |-> req.return_date,
                  airline |-> best_offer.airline,
                  stops |-> best_offer.outbound_segments - 1,
                  depart_time |-> best_offer.depart_time,
                  arrive_time |-> best_offer.arrive_time,
                  travel_minutes |-> best_offer.travel_minutes,
                  price |-> Round2(best_offer.total_amount),
                  segments |-> 2 * best_offer.outbound_segments]]

\* as DictSet, but a second entry is added for a key already present
DictSetAppend(cache, cache_key, itinerary) ==
    Append(cache, [cache_key |-> cache_key, itinerary |-> itinerary])

\* self._in_memory_cache[cache_key] = itinerary: a key already in the dict
\* keeps its place and gets the new value
DictSet(cache, cache_key, itinerary) ==
    IF InMemory(cache, cache_key)
    THEN [i \in DOMAIN cache |->
            IF cache[i].cache_key = cache_key
            THEN [cache_key |-> cache_key, itinerary |-> itinerary]
            ELSE cache[i]]
    ELSE Append(cache, [cache_key |-> cache_key, itinerary |-> itinerary])

\* _store_in_cache (pricing.py 584-608), which has no await; db_ok = the
\* merge and commit succeed (a failure is rolled back and swallowed)
_store_in_cache(cache, table, cache_key, itinerary, limit, db_ok) ==
    [cache |-> DictSet(IF Len(cache) > limit THEN Tail(cache) ELSE cache,
                       cache_key, itinerary),
     table |-> IF db_ok THEN Merge(table, PriceCacheRow(cache_key, itinerary))
               ELSE table]

\* as FallbackToMock, but the quote of the mock provider is stored under the
\* key of the request like a fetched itinerary
FallbackToMockStored(req, cache, table, limit, db_ok) ==
    LET out == get_best_itinerary(req, <<>>, table, FALSE, limit, db_ok)
        stored == _store_in_cache(cache, out.table, Duffel_get_cache_key(req),
                                  out.itinerary, limit, db_ok)
    IN  [raised |-> FALSE, itinerary |-> out.itinerary, cache |-> stored.cache,
         table |-> stored.table]

\* the except branch (pricing.py 408-415) after the warning: a new
\* MockPricingProvider(volatile=False) answers the request; it reads and
\* writes the price_cache table under its own key
FallbackToMock(req, cache, table, limit, db_ok) ==
    LET out == get_best_itinerary(req, <<>>, table, FALSE, limit, db_ok)
    IN  [raised |-> FALSE, itinerary |-> out.itinerary, cache |-> cache,
         table |-> out.table]

\* the number of starts and returns of calls so far
DuffelClock ==
    Cardinality({ c \in DuffelCallIds : duffel_calls[c].pc # "idle" })
    + Cardinality({ c \in DuffelCallIds : duffel_calls[c].pc = "done" })

IdleCall ==
    [pc |-> "idle", req |-> None, path |-> "", itinerary |-> None, raised |-> FALSE,
     committed |-> FALSE, started |-> 0, finished |-> 0]

\* the rows an earlier provider (optimiser.py 28-29 builds one per
\* OptimiserService) may have left in the price_cache table
EarlierRows ==
    { PriceCacheRow(Duffel_get_cache_key(req),
                    _fetch_from_duffel_api(
                        req, DuffelResponse(FALSE, 201, 200,
                                            <<Offer(300 * FP, 1, "BA", 9)>>)).itinerary) :
        req \in { r \in DuffelRequests : r.origin = "JFK" } }

InitDuffel ==
    /\ duffel_cache = <<>>
    /\ duffel_calls = [c \in DuffelCallIds |-> IdleCall]
    /\ duffel_log = <<>>
    /\ price_cache \in {{}, EarlierRows}
    /\ in_memory_cache = <<>>
    /\ first_served = {}
    /\ last_call = None
    /\ pricing_calls = 0
    /\ transfer_call = None
    /\ transfer_ret = None
    /\ whatif_call = None
    /\ whatif_ret = None
    /\ event = NoEvent
    /\ attendees = <<>>
    /\ attendee_count = 0
    /\ hotels = <<>>
    /\ transfer_options = <<>>
    /\ pc = "off"
    /\ date_windows = <<>>
    /\ loc_i = 1
    /\ win_j = 1
    /\ results = <<>>
    /\ sim_error = None
    /\ response = None
    /\ hotel_call = None
    /\ hotel_ret = None
    /\ score_call = None
    /\ score_ret = None

Returned(call, path, itinerary, raised) ==
    [call EXCEPT !.pc = "done", !.path = path, !.itinerary = itinerary,
                 !.raised = raised, !.finished = DuffelClock + 1]

\* get_best_itinerary from its start to the await of the fetch or to the
\* return on a hit (pricing.py 367-398)
DuffelCall ==
    \E c \in DuffelCallIds, req \in DuffelRequests :
        /\ duffel_calls[c].pc = "idle"
        /\ \A d \in 1 .. c - 1 : duffel_calls[d].pc # "idle"
        /\ LET cache_key == Duffel_get_cache_key(req)
               rows == { r \in price_cache : r.cache_key = cache_key }
               rebuilt == CachedItinerary(req, CHOOSE r \in rows : TRUE)
               call == [IdleCall EXCEPT !.req = req, !.started = DuffelClock + 1]
           IN  IF InMemory(duffel_cache, cache_key)
               THEN /\ duffel_calls' =
                          [duffel_calls EXCEPT ![c] =
                              Returned(call, "memory",
                                       MemoryEntry(duffel_cache, cache_key), FALSE)]
                    /\ UNCHANGED duffel_cache
               ELSE IF rows # {}
               THEN /\ duffel_calls' =
                          [duffel_calls EXCEPT ![c] =
                              Returned(call, "sqlite", rebuilt, FALSE)]
                    /\ duffel_cache' = DictSet(duffel_cache, cache_key, rebuilt)
               ELSE /\ duffel_calls' = [duffel_calls EXCEPT ![c] =
                                           [call EXCEPT !.pc = "fetching"]]
                    /\ UNCHANGED duffel_cache
        /\ UNCHANGED <<price_cache, duffel_log, notDuffelVars>>

\* the fetch returns an itinerary: it is stored and returned (pricing.py
\* 399-406)
FetchReturns ==
    \E c \in DuffelCallIds, api_response \in DuffelResponses, db_ok \in BOOLEAN :
        /\ duffel_calls[c].pc = "fetching"
        /\ LET req == duffel_calls[c].req
               fetched == _fetch_from_duffel_api(req, api_response)
               stored == _store_in_cache(duffel_cache, price_cache,
                                         Duffel_get_cache_key(req), fetched.itinerary,
                                         MaxCacheEntries, db_ok)
           IN  /\ ~fetched.raised
               /\ duffel_cache' = stored.cache
               /\ price_cache' = stored.table
               /\ duffel_calls' =
                     [duffel_calls EXCEPT ![c] =
                         [Returned(@, "duffel", fetched.itinerary, FALSE)
                            EXCEPT !.committed = db_ok]]
        /\ UNCHANGED <<duffel_log, notDuffelVars>>

\* the fetch raises: the warning, then the quote of the mock provider
\* (pricing.py 408-415)
FetchRaises ==
    \E c \in DuffelCallIds, api_response \in DuffelResponses, db_ok \in BOOLEAN :
        /\ duffel_calls[c].pc = "fetching"
        /\ LET req == duffel_calls[c].req
               fetched == _fetch_from_duffel_api(req, api_response)
               fallback == FallbackToMock(req, duffel_cache, price_cache,
                                          MaxCacheEntries, db_ok)
           IN  /\ fetched.raised
               /\ duffel_log' = Append(duffel_log,
                                       [level |-> "warning", call |-> c, req |-> req])
               /\ duffel_cache' = fallback.cache
               /\ price_cache' = fallback.table
               /\ duffel_calls' =
                     [duffel_calls EXCEPT ![c] =
                         Returned(@, "fallback", fallback.itinerary, fallback.raised)]
        /\ UNCHANGED notDuffelVars

DuffelNext ==
    \/ DuffelCall
    \/ FetchReturns
    \/ FetchRaises

\* the calls that have returned, and those that returned this way
Done(c) == duffel_calls[c].pc = "done"

Via(c, path) == Done(c) /\ duffel_calls[c].path = path

KeyOf(c) == Duffel_get_cache_key(duffel_calls[c].req)

\* what a new deterministic MockPricingProvider can answer a request with:
\* the generated itinerary, or the one rebuilt from the row it stored
MockQuotes(req) ==
    { _generate_itinerary(req, FALSE),
      CachedItinerary(req, PriceCacheRow(_get_cache_key(req),
                                         _generate_itinerary(req, FALSE))) }

\* C22: on a cache miss get_best_itinerary does not raise when the fetch
\* fails: every exception of the fetch gives a logged warning and then the
\* quote of a MockPricingProvider for the same request; that quote is not
\* stored under the Duffel cache key (every entry and row under such a key is
\* a fetched itinerary), so a later call for the request tries the API again
\* (only a call after a successful fetch for the key is served from a cache).
C22_FallbackLoggedNotCached ==
    /\ \A c \in DuffelCallIds :
          /\ ~duffel_calls[c].raised
          /\ Via(c, "fallback") =>
                /\ duffel_calls[c].itinerary \in MockQuotes(duffel_calls[c].req)
                /\ \E k \in DOMAIN duffel_log :
                      /\ duffel_log[k].level = "warning"
                      /\ duffel_log[k].call = c
                      /\ duffel_log[k].req = duffel_calls[c].req
          /\ (Via(c, "memory") \/ Via(c, "sqlite")) =>
                \/ \E d \in DuffelCallIds :
                      /\ Via(d, "duffel")
                      /\ KeyOf(d) = KeyOf(c)
                      /\ duffel_calls[d].finished < duffel_calls[c].started
                \/ \E row \in EarlierRows : row.cache_key = KeyOf(c)
    /\ \A i \in DOMAIN duffel_cache :
          \/ \E d \in DuffelCallIds :
                /\ Via(d, "duffel")
                /\ KeyOf(d) = duffel_cache[i].cache_key
                /\ duffel_cache[i].itinerary = duffel_calls[d].itinerary
          \/ \E row \in EarlierRows :
                /\ row.cache_key = duffel_cache[i].cache_key
                /\ \E req \in DuffelRequests :
                      duffel_cache[i].itinerary = CachedItinerary(req, row)
    /\ \A row \in price_cache :
          row.cache_key[1] = "duffel" =>
             \/ row \in EarlierRows
             \/ \E d \in DuffelCallIds :
                   /\ Via(d, "duffel")
                   /\ row = PriceCacheRow(KeyOf(d), duffel_calls[d].itinerary)

\* a call whose fetch failed returned the mock quote with its warning logged,
\* nothing is cached under its key, and a call for the same request that
\* started afterwards is waiting for the API
C22_Witness ==
    \E c, d \in DuffelCallIds :
        /\ Via(c, "fallback")
        /\ \E k \in DOMAIN duffel_log : duffel_log[k].call = c
        /\ ~InMemory(duffel_cache, KeyOf(c))
        /\ \A row \in price_cache : row.cache_key # KeyOf(c)
        /\ \E row \in price_cache : row.cache_key = _get_cache_key(duffel_calls[c].req)
        /\ duffel_calls[d].pc = "fetching"
        /\ duffel_calls[d].req = duffel_calls[c].req
        /\ duffel_calls[d].started > duffel_calls[c].finished

\* the call went past both caches to the fetch
Missed(c) == Via(c, "duffel") \/ Via(c, "fallback")

\* two calls for one key that both missed the caches while the other was
\* running, seen when both have returned and no other call has returned
\* since the first of them started
ConcurrentMisses(a, b) ==
    /\ a # b
    /\ Missed(a) /\ Missed(b)
    /\ KeyOf(a) = KeyOf(b)
    /\ duffel_calls[a].started < duffel_calls[b].finished
    /\ duffel_calls[b].started < duffel_calls[a].finished
    /\ \A e \in DuffelCallIds \ {a, b} :
          Done(e) => /\ duffel_calls[e].finished < duffel_calls[a].started
                     /\ duffel_calls[e].finished < duffel_calls[b].started

MemoryEntries(cache_key) ==
    { i \in DOMAIN duffel_cache : duffel_cache[i].cache_key = cache_key }

Rows(cache_key) == { row \in price_cache : row.cache_key = cache_key }

\* the later of the calls a and b for which the predicate holds, 0 if none
LastOf(a, b, P(_)) ==
    IF P(a) /\ (~P(b) \/ duffel_calls[a].finished > duffel_calls[b].finished) THEN a
    ELSE IF P(b) THEN b
    ELSE 0

Fetched(c) == Via(c, "duffel")

Committed(c) == Via(c, "duffel") /\ duffel_calls[c].committed

\* C23 as stated: after two concurrent calls for one key that both missed,
\* both have an itinerary and each cache holds exactly one entry for the
\* key, both from the write of the call that returned last.
C23_ExactlyOneEntry ==
    \A a, b \in DuffelCallIds :
        (ConcurrentMisses(a, b)
         /\ duffel_calls[a].finished < duffel_calls[b].finished) =>
            /\ ~duffel_calls[a].raised /\ duffel_calls[a].itinerary # None
            /\ ~duffel_calls[b].raised /\ duffel_calls[b].itinerary # None
            /\ Cardinality(MemoryEntries(KeyOf(a))) = 1
            /\ Cardinality(Rows(KeyOf(a))) = 1
            /\ \E w \in {a, b} :
                  /\ MemoryEntry(duffel_cache, KeyOf(a)) = duffel_calls[w].itinerary
                  /\ Rows(KeyOf(a)) = {PriceCacheRow(KeyOf(a), duffel_calls[w].itinerary)}

\* C23, amended: after two concurrent calls for one key that both missed,
\* both have an itinerary and none raised; each cache holds at most one entry
\* for the key; the in-memory cache holds the itinerary of the last of the
\* two whose fetch succeeded, the SQLite cache the row of the last of the two
\* whose SQLite write committed, and a cache has no entry for the key when
\* there is no such call (after two failed fetches the fallback quotes are
\* not cached); an entry is never mixed from two writes.
C23_LastWriteWins ==
    \A a, b \in DuffelCallIds :
        ConcurrentMisses(a, b) =>
            LET cache_key == KeyOf(a)
                fetched == LastOf(a, b, Fetched)
                committed == LastOf(a, b, Committed)
            IN  /\ ~duffel_calls[a].raised /\ duffel_calls[a].itinerary # None
                /\ ~duffel_calls[b].raised /\ duffel_calls[b].itinerary # None
                /\ Cardinality(MemoryEntries(cache_key)) = (IF fetched = 0 THEN 0 ELSE 1)
                /\ Cardinality(Rows(cache_key)) = (IF committed = 0 THEN 0 ELSE 1)
                /\ fetched # 0 =>
                      MemoryEntry(duffel_cache, cache_key) = duffel_calls[fetched].itinerary
                /\ committed # 0 =>
                      Rows(cache_key)
                      = {PriceCacheRow(cache_key, duffel_calls[committed].itinerary)}

\* two concurrent calls fetched different itineraries for the same request,
\* and both caches hold that of the call that returned last
C23_Witness ==
    \E a, b \in DuffelCallIds :
        /\ ConcurrentMisses(a, b)
        /\ Fetched(a) /\ Fetched(b)
        /\ duffel_calls[a].finished < duffel_calls[b].finished
        /\ duffel_calls[a].itinerary # duffel_calls[b].itinerary
        /\ MemoryEntry(duffel_cache, KeyOf(a)) = duffel_calls[b].itinerary
        /\ Rows(KeyOf(a)) = {PriceCacheRow(KeyOf(a), duffel_calls[b].itinerary)}
        /\ Len(duffel_cache) = 1

-----------------------------------------------------------------------------

SpecSim == InitSim /\ [][SimNext]_vars

SpecHotel == InitHotel /\ [][HotelNext]_vars

SpecScore == InitScore /\ [][ScoreNext]_vars

SpecPricing == InitPricing /\ [][PricingNext]_vars

SpecSelect == InitSelect /\ [][SelectNext]_vars

SpecTransfer == InitTransfer /\ [][TransferNext]_vars

SpecWhatIf == InitWhatIf /\ [][WhatIfNext]_vars

SpecDuffel == InitDuffel /\ [][DuffelNext]_vars

=============================================================================
